---- MODULE Spec2Model ----
(***************************************************************************)
(* dataviz-easy: the tabular-data ingestion pipeline                       *)
(* (AdvancedDataProcessor), the process-file / analyze-data /              *)
(* get-chart-data handlers, the FileStorage + FileCache store, the chart   *)
(* suggestion engine and the chart data aggregator.                        *)
(*                                                                         *)
(* A JavaScript string is a sequence of one-character strings, so that     *)
(* trim, the regular expressions, parseFloat, Number and toString are      *)
(* computed on the characters.  A JavaScript number is a rational          *)
(* [n, d] in lowest terms; d = 0 is NaN.                                   *)
(***************************************************************************)
EXTENDS Integers, Sequences, FiniteSets, TLC

(***************************************************************************)
(* Characters and strings                                                  *)
(***************************************************************************)
WhiteSpace == {" ", "\t", "\r", "\n"}

DigitChars == <<"0", "1", "2", "3", "4", "5", "6", "7", "8", "9">>

UpperChars == <<"A", "B", "C", "D", "E", "F", "G", "H", "I", "J", "K", "L", "M",
                "N", "O", "P", "Q", "R", "S", "T", "U", "V", "W", "X", "Y", "Z">>

LowerChars == <<"a", "b", "c", "d", "e", "f", "g", "h", "i", "j", "k", "l", "m",
                "n", "o", "p", "q", "r", "s", "t", "u", "v", "w", "x", "y", "z">>

IsDigit(c) == \E i \in 1..10 : DigitChars[i] = c

DigitVal(c) == (CHOOSE i \in 1..10 : DigitChars[i] = c) - 1

LowerChar(c) ==
  IF \E i \in 1..26 : UpperChars[i] = c
  THEN LowerChars[CHOOSE i \in 1..26 : UpperChars[i] = c]
  ELSE c

\* s[i], or "" past either end (JavaScript's undefined)
CharAt(s, i) == IF i >= 1 /\ i <= Len(s) THEN s[i] ELSE ""

toLowerCase(s) == [i \in 1..Len(s) |-> LowerChar(s[i])]

RECURSIVE SkipSpaces(_, _)
SkipSpaces(s, i) ==
  IF i <= Len(s) /\ s[i] \in WhiteSpace THEN SkipSpaces(s, i + 1) ELSE i

RECURSIVE SkipSpacesBack(_, _)
SkipSpacesBack(s, i) ==
  IF i >= 1 /\ s[i] \in WhiteSpace THEN SkipSpacesBack(s, i - 1) ELSE i

\* String.prototype.trim
trim(s) ==
  LET a == SkipSpaces(s, 1)
      b == SkipSpacesBack(s, Len(s))
  IN  IF a > b THEN <<>> ELSE SubSeq(s, a, b)

\* String.prototype.includes
includes(s, k) ==
  \E i \in 1..(Len(s) - Len(k) + 1) : SubSeq(s, i, i + Len(k) - 1) = k

\* s.replace(/[...]/g, by): every character of the class becomes `by`
replaceAll(s, class, by) ==
  LET Rep(c) == IF c \in class THEN by ELSE <<c>>
      F[i \in 0..Len(s)] == IF i = 0 THEN <<>> ELSE F[i - 1] \o Rep(s[i])
  IN  F[Len(s)]

\* s.replace(c, by) with a string pattern: the first occurrence only
replaceFirst(s, c, by) ==
  IF \E i \in 1..Len(s) : s[i] = c
  THEN LET i == CHOOSE j \in 1..Len(s) : s[j] = c /\ \A h \in 1..(j - 1) : s[h] # c
       IN  SubSeq(s, 1, i - 1) \o by \o SubSeq(s, i + 1, Len(s))
  ELSE s

RECURSIVE DigitsEnd(_, _)
\* the first position >= i that holds no digit
DigitsEnd(s, i) ==
  IF i <= Len(s) /\ IsDigit(s[i]) THEN DigitsEnd(s, i + 1) ELSE i

RECURSIVE DigitsValue(_, _, _)
\* the value of the digits s[a .. b-1]
DigitsValue(s, a, b) ==
  IF a >= b THEN 0 ELSE DigitsValue(s, a, b - 1) * 10 + DigitVal(s[b - 1])

RECURSIVE NatToStr(_)
NatToStr(n) ==
  IF n < 10 THEN <<DigitChars[n + 1]>>
  ELSE NatToStr(n \div 10) \o <<DigitChars[(n % 10) + 1]>>

(***************************************************************************)
(* Numbers                                                                 *)
(***************************************************************************)
NaN == [n |-> 0, d |-> 0]

isNaN(q) == q.d = 0

Abs(x) == IF x < 0 THEN -x ELSE x

RECURSIVE Gcd(_, _)
Gcd(a, b) == IF b = 0 THEN a ELSE Gcd(b, a % b)

RECURSIVE Pow10(_)
Pow10(k) == IF k <= 0 THEN 1 ELSE 10 * Pow10(k - 1)

\* n / d in lowest terms, d > 0
Rat(n, d) ==
  LET g == Gcd(Abs(n), d)
  IN  IF n = 0 THEN [n |-> 0, d |-> 1] ELSE [n |-> n \div g, d |-> d \div g]

RatAdd(p, q) ==
  IF isNaN(p) \/ isNaN(q) THEN NaN ELSE Rat(p.n * q.d + q.n * p.d, p.d * q.d)

\* p / k for an integer k (k = 0 gives NaN for 0/0; x/0 is not reached)
RatDivInt(p, k) ==
  IF isNaN(p) \/ k = 0 THEN NaN ELSE Rat(p.n, p.d * k)

RatMulInt(p, k) == IF isNaN(p) THEN NaN ELSE Rat(p.n * k, p.d)

RatLess(p, q) == p.n * q.d < q.n * p.d

\* the position after an optional sign at i
SignEnd(s, i) == IF CharAt(s, i) \in {"-", "+"} THEN i + 1 ELSE i

\* the position after an optional fraction ".ddd" at i
FractionEnd(s, i) == IF CharAt(s, i) = "." THEN DigitsEnd(s, i + 1) ELSE i

\* The result of a scan that found the sign up to i1, the integer digits up
\* to i2, the fraction up to i3, the exponent sign up to j1 and the exponent
\* digits up to j2.
ScanResult(s, i0, i1, i2, i3, j1, j2) ==
  LET fracLen == IF i3 > i2 THEN i3 - (i2 + 1) ELSE 0
      nDigits == (i2 - i1) + fracLen
      expOk   == nDigits > 0 /\ CharAt(s, i3) \in {"e", "E"} /\ j2 > j1
      sgn     == IF CharAt(s, i0) = "-" THEN -1 ELSE 1
      esgn    == IF CharAt(s, i3 + 1) = "-" THEN -1 ELSE 1
  IN  [ok    |-> nDigits > 0,
       end   |-> IF nDigits = 0 THEN i0 ELSE IF expOk THEN j2 ELSE i3,
       mant  |-> sgn * (DigitsValue(s, i1, i2) * Pow10(fracLen)
                          + (IF i3 > i2 THEN DigitsValue(s, i2 + 1, i3) ELSE 0)),
       e     |-> (IF expOk THEN esgn * DigitsValue(s, j1, j2) ELSE 0) - fracLen]

ScanExponent(s, i0, i1, i2, i3) ==
  ScanResult(s, i0, i1, i2, i3, SignEnd(s, i3 + 1), DigitsEnd(s, SignEnd(s, i3 + 1)))

\* The scan that parseFloat and Number share: sign, digits, optional
\* fraction, optional exponent.  `end` is the first position not consumed,
\* and the number scanned is mant * 10^e.
ScanDecimal(s, i0) ==
  ScanExponent(s, i0, SignEnd(s, i0), DigitsEnd(s, SignEnd(s, i0)),
               FractionEnd(s, DigitsEnd(s, SignEnd(s, i0))))

\* the number a scan found
ScanValue(sc) ==
  IF ~sc.ok THEN NaN
  ELSE IF sc.e >= 0 THEN Rat(sc.mant * Pow10(sc.e), 1)
  ELSE Rat(sc.mant, Pow10(-sc.e))

\* parseFloat: the longest numeric prefix after leading white space
parseFloat(s) == ScanValue(ScanDecimal(s, SkipSpaces(s, 1)))

\* isNaN(Number(s)): the whole trimmed string must be a numeric literal;
\* the empty string is 0
NumberIsNaN(s) ==
  LET whole(t, sc) == IF t = <<>> THEN FALSE ELSE ~(sc.ok /\ sc.end = Len(t) + 1)
  IN  whole(trim(s), ScanDecimal(trim(s), 1))

RECURSIVE FracDigits(_, _, _)
FracDigits(r, d, k) ==
  IF r = 0 \/ k = 0 THEN <<>>
  ELSE <<DigitChars[((r * 10) \div d) + 1]>> \o FracDigits((r * 10) % d, d, k - 1)

\* Number.prototype.toString of a finite decimal in positional notation
numToString(q) ==
  IF isNaN(q) THEN <<"N", "a", "N">>
  ELSE LET a == Abs(q.n)
       IN  (IF q.n < 0 THEN <<"-">> ELSE <<>>)
           \o NatToStr(a \div q.d)
           \o (IF a % q.d = 0 THEN <<>> ELSE <<".">> \o FracDigits(a % q.d, q.d, 17))

(***************************************************************************)
(* AdvancedDataProcessor (src/lib/advanced-data-processor.ts).             *)
(* A table is a sequence of rows, a row a sequence of cells.  Row indices  *)
(* that the code reports (headerRow, dataStartRow) are 0-based as in the   *)
(* code; an optional result (T | null) is <<>> or <<value>>.               *)
(***************************************************************************)
headerKeywords ==
  << <<"d", "a", "t", "a">>,
     <<"c", "a", "t", "e", "g", "o", "r", "i", "a">>,
     <<"d", "e", "s", "c", "r", "i", "ç", "ã", "o">>,
     <<"v", "a", "l", "o", "r">>,
     <<"o", "b", "s", "e", "r", "v", "a", "ç", "õ", "e", "s">>,
     <<"n", "o", "m", "e">>,
     <<"c", "ó", "d", "i", "g", "o">>,
     <<"q", "u", "a", "n", "t", "i", "d", "a", "d", "e">>,
     <<"p", "r", "e", "ç", "o">>,
     <<"t", "o", "t", "a", "l">>,
     <<"d", "e", "p", "a", "r", "t", "a", "m", "e", "n", "t", "o">>,
     <<"f", "u", "n", "c", "i", "o", "n", "á", "r", "i", "o">>,
     <<"c", "l", "i", "e", "n", "t", "e">> >>

budgetKeywords ==
  << <<"o", "r", "ç", "a", "m", "e", "n", "t", "o">>,
     <<"d", "e", "s", "p", "e", "s", "a", "s">>,
     <<"r", "e", "n", "d", "a">>,
     <<"p", "l", "a", "n", "e", "j", "a", "d", "o">>,
     <<"r", "e", "a", "l">> >>

expenseKeywords ==
  << <<"r", "e", "l", "a", "t", "ó", "r", "i", "o">>,
     <<"d", "e", "s", "p", "e", "s", "a", "s">>,
     <<"d", "a", "t", "a">>,
     <<"c", "a", "t", "e", "g", "o", "r", "i", "a">>,
     <<"v", "a", "l", "o", "r">> >>

skipKeywords ==
  << <<"p", "r", "i", "m", "e", "i", "r", "o", "s", " ", "p", "a", "s", "s", "o", "s">>,
     <<"o", "b", "s", "e", "r", "v", "a", "ç", "ã", "o">>,
     <<"s", "a", "l", "d", "o", " ", "i", "n", "i", "c", "i", "a", "l">>,
     <<"o", "r", "ç", "a", "m", "e", "n", "t", "o", " ", "m", "e", "n", "s", "a", "l">>,
     <<"t", "o", "t", "a", "i", "s">> >>

kwDespesas == <<"d", "e", "s", "p", "e", "s", "a", "s">>
kwRenda == <<"r", "e", "n", "d", "a">>
kwPlanejado == <<"p", "l", "a", "n", "e", "j", "a", "d", "o">>
kwReal == <<"r", "e", "a", "l">>
kwTotais == <<"t", "o", "t", "a", "i", "s">>

budgetHeaders ==
  << <<"C", "a", "t", "e", "g", "o", "r", "i", "a">>,
     <<"P", "l", "a", "n", "e", "j", "a", "d", "o">>,
     <<"R", "e", "a", "l">>,
     <<"D", "i", "f", "e", "r", "e", "n", "ç", "a">> >>

Campo(k) == <<"C", "a", "m", "p", "o", "_">> \o NatToStr(k)

Column(k) == <<"C", "o", "l", "u", "m", "n", "_">> \o NatToStr(k)

includesAny(s, keywords) == \E k \in 1..Len(keywords) : includes(s, keywords[k])

RECURSIVE SumSeq(_)
SumSeq(s) == IF s = <<>> THEN 0 ELSE s[1] + SumSeq(Tail(s))

RECURSIVE Flatten(_)
\* the concatenation of a sequence of sequences
Flatten(ss) == IF ss = <<>> THEN <<>> ELSE ss[1] \o Flatten(Tail(ss))

Min(a, b) == IF a < b THEN a ELSE b

\* /^R\$\s*[\d,.-]+$/
currencyRegex(s) ==
  /\ Len(s) >= 3
  /\ s[1] = "R"
  /\ s[2] = "$"
  /\ LET k == SkipSpaces(s, 3)
     IN  /\ k <= Len(s)
         /\ \A i \in k..Len(s) : IsDigit(s[i]) \/ s[i] \in {",", ".", "-"}

\* /^\+?\d+%$/
percentageRegex(s) ==
  LET i1 == IF CharAt(s, 1) = "+" THEN 2 ELSE 1
      i2 == DigitsEnd(s, i1)
  IN  i2 > i1 /\ i2 = Len(s) /\ s[i2] = "%"

\* row.some(cell => cell && cell.toString().trim() !== '')
rowHasContent(row) == \E j \in 1..Len(row) : trim(row[j]) # <<>>

\* cell.replace(/[R$\s]/g, '').replace(',', '.'), parseFloat, and back to a string
normalizeCurrency(cell) ==
  LET cleanValue == replaceFirst(replaceAll(cell, {"R", "$"} \cup WhiteSpace, <<>>), ",", <<".">>)
      text(numValue) == IF isNaN(numValue) THEN <<"0">> ELSE numToString(numValue)
  IN  text(parseFloat(cleanValue))

isMonetaryValue(cell) == cell # <<>> /\ currencyRegex(trim(cell))

isNumericValue(cell) ==
  LET numeric(str) ==
        /\ str # <<>>
        /\ \/ currencyRegex(str)
           \/ /\ ~NumberIsNaN(replaceAll(str, {",", ".", "-"}, <<".">>))
              /\ \E i \in 1..Len(str) : IsDigit(str[i])
  IN  numeric(trim(cell))

\* the 0-based index of the last non-empty cell, 0 when there is none
findLastNonEmptyColumn(row) ==
  IF \E i \in 1..Len(row) : trim(row[i]) # <<>>
  THEN (CHOOSE i \in 1..Len(row) :
          trim(row[i]) # <<>> /\ \A j \in (i + 1)..Len(row) : trim(row[j]) = <<>>) - 1
  ELSE 0

isValidBudgetCategory(category) ==
  category # <<>> /\ ~includesAny(toLowerCase(category), skipKeywords)

RECURSIVE BudgetValues(_, _, _, _)
\* the loop of extractBudgetRow over row[1..] (0-based), from 1-based position i
BudgetValues(row, i, values, foundMonetary) ==
  IF i > Len(row) THEN [values |-> values, foundMonetary |-> foundMonetary]
  ELSE LET step(cell) ==
             IF currencyRegex(cell)
             THEN BudgetValues(row, i + 1, Append(values, normalizeCurrency(cell)), TRUE)
             ELSE IF foundMonetary /\ Len(values) < 3
             THEN BudgetValues(row, i + 1, Append(values, <<"0">>), foundMonetary)
             ELSE BudgetValues(row, i + 1, values, foundMonetary)
       IN  step(trim(row[i]))

RECURSIVE PadZero(_)
PadZero(values) == IF Len(values) < 3 THEN PadZero(Append(values, <<"0">>)) ELSE values

\* <<>> for null, else <<[category, v1, v2, v3]>>
extractBudgetRow(row) ==
  IF Len(row) < 3 THEN <<>>
  ELSE LET budgetRow(category, r) ==
             IF ~isValidBudgetCategory(category) THEN <<>>
             ELSE IF category # <<>> /\ r.foundMonetary /\ Len(r.values) > 0
             THEN << <<category>> \o SubSeq(PadZero(r.values), 1, 3) >>
             ELSE <<>>
       IN  budgetRow(trim(row[1]), BudgetValues(row, 2, <<>>, FALSE))

\* one cell of the regular-table branch of cleanDataRows; j is 1-based
cleanCell(row, j) ==
  LET clean(c) ==
        IF currencyRegex(c) THEN normalizeCurrency(c)
        ELSE IF percentageRegex(c) THEN replaceFirst(c, "%", <<>>)
        ELSE c
  IN  IF j > Len(row) THEN <<>>
      ELSE IF row[j] = <<>> THEN <<>>
      ELSE clean(trim(row[j]))

\* cleanDataRow without the last test: a row that is empty after cleaning is kept
cleanDataRow_keepsEmpty(row, expectedColumnCount) ==
  LET kept(budgetData, cleanedRow) ==
        IF ~rowHasContent(row) THEN <<>>
        ELSE IF budgetData # <<>> THEN budgetData
        ELSE <<cleanedRow>>
  IN  kept(extractBudgetRow(row), [j \in 1..expectedColumnCount |-> cleanCell(row, j)])

\* the rows that one raw row contributes to cleanDataRows: none or one
cleanDataRow(row, expectedColumnCount) ==
  LET kept(budgetData, cleanedRow) ==
        IF ~rowHasContent(row) THEN <<>>
        ELSE IF budgetData # <<>> THEN budgetData
        ELSE IF \E j \in 1..expectedColumnCount : cleanedRow[j] # <<>> THEN <<cleanedRow>>
        ELSE <<>>
  IN  kept(extractBudgetRow(row), [j \in 1..expectedColumnCount |-> cleanCell(row, j)])

cleanDataRows(rows, expectedColumnCount) ==
  Flatten([i \in 1..Len(rows) |-> cleanDataRow(rows[i], expectedColumnCount)])

\* the score part and the look-ahead part of isValidHeaderRow; rowIndex is 0-based
headerScore(row) ==
  LET cellsText == [j \in 1..Len(row) |-> trim(toLowerCase(row[j]))]
      pts(cell) == (IF cell # <<>> /\ includesAny(cell, headerKeywords) THEN 2 ELSE 0)
                   + (IF cell # <<>> /\ Len(cell) < 30 /\ ~isNumericValue(cell) THEN 1 ELSE 0)
  IN  SumSeq([j \in 1..Len(row) |-> pts(cellsText[j])])

isValidHeaderRow(row, rowIndex, allRows) ==
  /\ headerScore(row) >= 3
  /\ rowIndex < Len(allRows) - 2
  /\ \E r \in (rowIndex + 2)..Min(rowIndex + 4, Len(allRows)) :
        \E j \in 1..Len(allRows[r]) : isNumericValue(allRows[r][j])

cleanHeaders(row) ==
  [j \in 1..Len(row) |-> IF trim(row[j]) = <<>> THEN Column(j) ELSE trim(row[j])]

RECURSIVE firstHeaderRow(_, _)
\* the for loop of findDataTable from the 0-based row i: the first valid
\* header row among the first 25, -1 when there is none
firstHeaderRow(rows, i) ==
  IF i >= Min(25, Len(rows)) THEN -1
  ELSE IF Len(rows[i + 1]) >= 3 /\ isValidHeaderRow(rows[i + 1], i, rows) THEN i
  ELSE firstHeaderRow(rows, i + 1)

\* <<>> for null
findDataTable(rows) ==
  LET table(i, headers) ==
        IF i < 0 THEN <<>>
        ELSE << [headers      |-> SubSeq(headers, 1, findLastNonEmptyColumn(headers) + 1),
                 headerRow    |-> i,
                 dataStartRow |-> i + 1] >>
      headersAt(i) == IF i < 0 THEN <<>> ELSE cleanHeaders(rows[i + 1])
      found(i) == table(i, headersAt(i))
  IN  found(firstHeaderRow(rows, 0))

RECURSIVE joinCells(_)
\* row.join(' ')
joinCells(row) ==
  IF row = <<>> THEN <<>>
  ELSE IF Len(row) = 1 THEN row[1]
  ELSE row[1] \o <<" ">> \o joinCells(Tail(row))

RECURSIVE BudgetSectionLoop(_, _, _, _, _)
\* the loop of extractBudgetSection from 1-based row i
BudgetSectionLoop(rows, sectionType, i, inSection, data) ==
  IF i > Len(rows) THEN data
  ELSE LET step(rowText, data2) ==
             IF includes(rowText, sectionType)
                /\ (includes(rowText, kwPlanejado) \/ includes(rowText, kwReal))
             THEN BudgetSectionLoop(rows, sectionType, i + 1, TRUE, data)
             ELSE IF inSection
             THEN IF includes(rowText, kwTotais) /\ Len(data2) > 0
                  THEN data2
                  ELSE BudgetSectionLoop(rows, sectionType, i + 1, inSection, data2)
             ELSE BudgetSectionLoop(rows, sectionType, i + 1, inSection, data)
       IN  step(toLowerCase(joinCells(rows[i])), data \o extractBudgetRow(rows[i]))

\* the rows of the section, <<>> where the code returns null
extractBudgetSection(rows, sectionType) ==
  BudgetSectionLoop(rows, sectionType, 1, FALSE, <<>>)

anyCellIncludes(rows, keywords) ==
  \E i \in 1..Len(rows) : \E j \in 1..Len(rows[i]) :
     includesAny(toLowerCase(rows[i][j]), keywords)

\* <<>> for null
analyzeBudgetStructure(rows) ==
  IF ~anyCellIncludes(rows, budgetKeywords) THEN <<>>
  ELSE LET result(expensesData, incomeData) ==
             << [headers           |-> budgetHeaders,
                 dataRows          |-> expensesData \o incomeData,
                 dataStartRow      |-> 0,
                 fileType          |-> "budget_layout",
                 extractedSections |->
                    (IF expensesData # <<>>
                     THEN << [name |-> <<"Despesas">>, headers |-> budgetHeaders, rows |-> expensesData] >>
                     ELSE <<>>)
                    \o
                    (IF incomeData # <<>>
                     THEN << [name |-> <<"Renda">>, headers |-> budgetHeaders, rows |-> incomeData] >>
                     ELSE <<>>)] >>
       IN  result(extractBudgetSection(rows, kwDespesas), extractBudgetSection(rows, kwRenda))

\* rows.slice(dataStartRow).filter(row => some non-empty cell)
bodyRows(rows, dataStartRow) ==
  SelectSeq(SubSeq(rows, dataStartRow + 1, Len(rows)), rowHasContent)

trimRow(row) == [j \in 1..Len(row) |-> trim(row[j])]

\* <<>> for null
analyzeExpenseReport(rows) ==
  LET trimmed(body) == [i \in 1..Len(body) |-> trimRow(body[i])]
      report(table, dataRows) ==
        << [headers           |-> table.headers,
            dataRows          |-> dataRows,
            dataStartRow      |-> table.dataStartRow,
            fileType          |-> "expense_report",
            extractedSections |->
               << [name    |-> <<"Transações">>,
                   headers |-> table.headers,
                   rows    |-> dataRows] >>] >>
      result(tableResult) ==
        IF ~anyCellIncludes(rows, expenseKeywords) \/ tableResult = <<>> THEN <<>>
        ELSE report(tableResult[1], trimmed(bodyRows(rows, tableResult[1].dataStartRow)))
  IN  result(findDataTable(rows))

\* <<>> for null
analyzeSimpleTable(rows) ==
  LET result(tableResult) ==
        IF tableResult = <<>> THEN <<>>
        ELSE << [headers           |-> tableResult[1].headers,
                 dataRows          |-> bodyRows(rows, tableResult[1].dataStartRow),
                 dataStartRow      |-> tableResult[1].dataStartRow,
                 fileType          |-> "simple_table",
                 extractedSections |-> <<>>] >>
  IN  result(findDataTable(rows))

\* the non-empty cells of the row, trimmed; <<>> (null) when fewer than 2
extractMeaningfulData(row) ==
  LET kept == SelectSeq(row, LAMBDA cell : trim(cell) # <<>>)
      meaningful == [j \in 1..Len(kept) |-> trim(kept[j])]
  IN  IF Len(meaningful) >= 2 THEN <<meaningful>> ELSE <<>>

analyzeComplexMultiSection(rows) ==
  LET extracted == [i \in 1..Len(rows) |->
                      IF rowHasContent(rows[i]) THEN extractMeaningfulData(rows[i]) ELSE <<>>]
      result(allData) ==
        [headers           |-> <<Campo(1), Campo(2), Campo(3), Campo(4)>>,
         dataRows          |-> allData,
         dataStartRow      |-> 0,
         fileType          |-> "complex_structure",
         extractedSections |->
            [k \in 1..Len(allData) |->
               [name    |-> <<"Seção", k>>,
                headers |-> [j \in 1..Len(allData[k]) |-> Campo(j)],
                rows    |-> <<allData[k]>>]]]
  IN  result(Flatten(extracted))

analyzeComplexStructure(rows) ==
  LET first(budgetResult, expenseResult, tableResult) ==
        IF budgetResult # <<>> THEN budgetResult[1]
        ELSE IF expenseResult # <<>> THEN expenseResult[1]
        ELSE IF tableResult # <<>> THEN tableResult[1]
        ELSE analyzeComplexMultiSection(rows)
  IN  first(analyzeBudgetStructure(rows), analyzeExpenseReport(rows), analyzeSimpleTable(rows))

(***************************************************************************)
(* Parsing the upload: processFile, processCSVFile, processExcelFile       *)
(***************************************************************************)
RECURSIVE ParseCSVLoop_noEscape(_, _, _, _, _)
\* the loop without its escaped-quote branch: every quote toggles
ParseCSVLoop_noEscape(line, i, result, current, inQuotes) ==
  IF i > Len(line) THEN Append(result, trim(current))
  ELSE IF line[i] = "\""
  THEN ParseCSVLoop_noEscape(line, i + 1, result, current, ~inQuotes)
  ELSE IF line[i] = "," /\ ~inQuotes
  THEN ParseCSVLoop_noEscape(line, i + 1, Append(result, trim(current)), <<>>, inQuotes)
  ELSE ParseCSVLoop_noEscape(line, i + 1, result, Append(current, line[i]), inQuotes)

parseCSVLine_noEscape(line) == ParseCSVLoop_noEscape(line, 1, <<>>, <<>>, FALSE)

RECURSIVE ParseCSVLoop(_, _, _, _, _)
\* the while loop of parseCSVLine from 1-based position i
ParseCSVLoop(line, i, result, current, inQuotes) ==
  IF i > Len(line) THEN Append(result, trim(current))
  ELSE LET char     == line[i]
           nextChar == CharAt(line, i + 1)
       IN  IF char = "\""
           THEN IF inQuotes /\ nextChar = "\""
                THEN ParseCSVLoop(line, i + 2, result, Append(current, "\""), inQuotes)
                ELSE ParseCSVLoop(line, i + 1, result, current, ~inQuotes)
           ELSE IF char = "," /\ ~inQuotes
           THEN ParseCSVLoop(line, i + 1, Append(result, trim(current)), <<>>, inQuotes)
           ELSE ParseCSVLoop(line, i + 1, result, Append(current, char), inQuotes)

parseCSVLine(line) == ParseCSVLoop(line, 1, <<>>, <<>>, FALSE)

\* content.split('\n'): the texts between consecutive line breaks
splitLines(content) ==
  LET cut(breaks) ==
        [k \in 1..(Len(breaks) + 1) |->
           SubSeq(content,
                  IF k = 1 THEN 1 ELSE breaks[k - 1] + 1,
                  IF k = Len(breaks) + 1 THEN Len(content) ELSE breaks[k] - 1)]
  IN  cut(SelectSeq([i \in 1..Len(content) |-> i], LAMBDA i : content[i] = "\n"))

\* the ParsedData built from an analysis result
parsedData(analysisResult, sheetNames) ==
  LET result(cleanedRows) ==
        [headers  |-> analysisResult.headers,
         rows     |-> cleanedRows,
         sheets   |-> sheetNames,
         metadata |-> [totalRows         |-> Len(cleanedRows),
                       totalColumns      |-> Len(analysisResult.headers),
                       hasMultipleSheets |-> Len(sheetNames) > 1,
                       detectedHeaders   |-> analysisResult.headers,
                       dataStartRow      |-> analysisResult.dataStartRow,
                       fileType          |-> analysisResult.fileType,
                       extractedSections |-> analysisResult.extractedSections]]
  IN  result(cleanDataRows(analysisResult.dataRows, Len(analysisResult.headers)))

\* the raw rows that processCSVFile hands to analyzeComplexStructure
csvRawRows(content) ==
  LET lines == SelectSeq(splitLines(content), LAMBDA line : trim(line) # <<>>)
  IN  [i \in 1..Len(lines) |-> parseCSVLine(lines[i])]

processCSVFile(content) ==
  parsedData(analyzeComplexStructure(csvRawRows(content)), <<>>)

\* the number of rows of a sheet that hold a non-empty cell
nonEmptyRows(data) == Len(SelectSeq(data, rowHasContent))

\* the 1-based index of the sheet processExcelFile reads: the first one
\* with the most non-empty rows (the first sheet when all are empty)
bestSheet(sheets) ==
  CHOOSE b \in 1..Len(sheets) :
    /\ \A k \in 1..Len(sheets) : nonEmptyRows(sheets[k]) <= nonEmptyRows(sheets[b])
    /\ \A k \in 1..(b - 1) : nonEmptyRows(sheets[k]) < nonEmptyRows(sheets[b])

\* workbook is what XLSX.read makes of the content: it throws, or it holds
\* one or more sheets, each already a table of rows of cells
processExcelFile(content, workbook) ==
  IF workbook.throws THEN processCSVFile(content)
  ELSE parsedData(analyzeComplexStructure(workbook.sheets[bestSheet(workbook.sheets)]),
                  [k \in 1..Len(workbook.sheets) |-> k])

endsWith(s, suffix) ==
  Len(s) >= Len(suffix) /\ SubSeq(s, Len(s) - Len(suffix) + 1, Len(s)) = suffix

isExcel(filename, mimeType) ==
  \/ includes(mimeType, <<"s", "p", "r", "e", "a", "d", "s", "h", "e", "e", "t", "m", "l">>)
  \/ endsWith(filename, <<".", "x", "l", "s", "x">>)
  \/ endsWith(filename, <<".", "x", "l", "s">>)

processFile(content, filename, mimeType, workbook) ==
  IF isExcel(filename, mimeType) THEN processExcelFile(content, workbook)
  ELSE processCSVFile(content)

\* AdvancedDataProcessor.analyzeDataQuality; dataCompleteness is a rational
analyzeDataQuality(headers, rows) ==
  LET totalCells  == Len(rows) * Len(headers)
      blank(cell) == trim(cell) = <<>>
      emptyRows   == Len(SelectSeq(rows, LAMBDA row : \A j \in 1..Len(row) : blank(row[j])))
      emptyColumns ==
        Cardinality({c \in 1..Len(headers) :
                       \A i \in 1..Len(rows) : c > Len(rows[i]) \/ blank(rows[i][c])})
      inconsistentRows == Len(SelectSeq(rows, LAMBDA row : Len(row) # Len(headers)))
      filledCells ==
        SumSeq([i \in 1..Len(rows) |-> Len(SelectSeq(rows[i], LAMBDA cell : ~blank(cell)))])
      dataCompleteness ==
        IF totalCells > 0 THEN Rat(filledCells * 100, totalCells) ELSE Rat(0, 1)
  IN  [emptyRows        |-> emptyRows,
       emptyColumns     |-> emptyColumns,
       inconsistentRows |-> inconsistentRows,
       dataCompleteness |-> dataCompleteness,
       suggestedCleanup |->
          (IF emptyRows > 0 THEN << <<"emptyRows", emptyRows>> >> ELSE <<>>)
          \o (IF emptyColumns > 0 THEN << <<"emptyColumns", emptyColumns>> >> ELSE <<>>)
          \o (IF inconsistentRows > 0 THEN << <<"inconsistentRows", inconsistentRows>> >> ELSE <<>>)
          \o (IF RatLess(dataCompleteness, Rat(50, 1)) THEN << <<"sparse", 0>> >> ELSE <<>>)]

(***************************************************************************)
(* The advanced process-file handler (src/unnamed/part_000).               *)
(* A request body is [fileId, filename, content, mimeType, size, workbook];*)
(* workbook is what XLSX.read makes of the content.  The text of a log     *)
(* line is kept as a tuple <<kind, arguments...>> of the values the        *)
(* template prints.  upload_date, read from the wall clock, is left out.   *)
(***************************************************************************)
Range(s) == {s[i] : i \in 1..Len(s)}

\* values.filter(v => v && v.trim() !== "")
nonEmptyValues(values) == SelectSeq(values, LAMBDA v : trim(v) # <<>>)

CountIf(values, Test(_)) == Len(SelectSeq(values, Test))

\* !isNaN(Date.parse(v)) for the ISO form YYYY-MM-DD, the only date form
\* that ECMAScript fixes
isDateString(v) ==
  /\ Len(v) = 10
  /\ \A i \in {1, 2, 3, 4, 6, 7, 9, 10} : IsDigit(v[i])
  /\ v[5] = "-" /\ v[8] = "-"
  /\ DigitsValue(v, 6, 8) \in 1..12
  /\ DigitsValue(v, 9, 11) \in 1..31

\* v.match(/\d/)
hasDigit(v) == \E i \in 1..Len(v) : IsDigit(v[i])

\* !isNaN(Date.parse(v)): a string of another form is parsed by a fallback
\* that is the engine's own; engineDates are the strings that it accepts
dateParses(v, engineDates) == isDateString(v) \/ v \in engineDates

\* /^(true|false|sim|não|yes|no|1|0)$/i.test(v.trim())
booleanRegex(v) ==
  toLowerCase(v) \in { <<"t", "r", "u", "e">>, <<"f", "a", "l", "s", "e">>, <<"s", "i", "m">>,
                       <<"n", "ã", "o">>, <<"y", "e", "s">>, <<"n", "o">>, <<"1">>, <<"0">> }

\* detectColumnType of part_000 with the checks for boolean and for number
\* exchanged
detectColumnTypeOn_booleanFirst(values, engineDates) ==
  LET typeOf(vs) ==
        IF Len(vs) = 0 THEN "string"
        ELSE IF CountIf(vs, LAMBDA v : booleanRegex(trim(v))) = Len(vs)
        THEN "boolean"
        ELSE IF CountIf(vs, LAMBDA v : dateParses(v, engineDates) /\ hasDigit(v)) = Len(vs)
        THEN "date"
        ELSE IF \/ CountIf(vs, LAMBDA v :
                      ~NumberIsNaN(replaceAll(v, {"R", "$", ","} \cup WhiteSpace, <<".">>))) = Len(vs)
                \/ CountIf(vs, LAMBDA v : currencyRegex(trim(v))) * 10 > Len(vs) * 8
        THEN "number"
        ELSE "string"
  IN  typeOf(nonEmptyValues(values))

\* detectColumnType of part_000 on an engine that accepts engineDates
detectColumnTypeOn(values, engineDates) ==
  LET typeOf(vs) ==
        IF Len(vs) = 0 THEN "string"
        ELSE IF \/ CountIf(vs, LAMBDA v :
                      ~NumberIsNaN(replaceAll(v, {"R", "$", ","} \cup WhiteSpace, <<".">>))) = Len(vs)
                \/ CountIf(vs, LAMBDA v : currencyRegex(trim(v))) * 10 > Len(vs) * 8
        THEN "number"
        ELSE IF CountIf(vs, LAMBDA v : dateParses(v, engineDates) /\ hasDigit(v)) = Len(vs)
        THEN "date"
        ELSE IF CountIf(vs, LAMBDA v : booleanRegex(trim(v))) = Len(vs)
        THEN "boolean"
        ELSE "string"
  IN  typeOf(nonEmptyValues(values))

\* detectColumnType of part_000 for uploads none of whose strings the
\* engine's fallback accepts
detectColumnType(values) == detectColumnTypeOn(values, {})

\* rows.map(row => row[index] || ""), index 1-based here
columnValues(rows, index) ==
  [i \in 1..Len(rows) |-> IF index <= Len(rows[i]) THEN rows[i][index] ELSE <<>>]

\* one element of columnData
columnDatum(fileId, header, values, columnType) ==
  [file_id       |-> fileId,
   column_name   |-> header,
   column_type   |-> columnType,
   sample_values |-> nonEmptyValues(SubSeq(values, 1, Min(5, Len(values))))]

\* the last 1-based position of the header in headers: the assignment of
\* rowObject[header] that survives the forEach
lastIndexOf(headers, header) ==
  CHOOSE j \in 1..Len(headers) :
    headers[j] = header /\ \A k \in (j + 1)..Len(headers) : headers[k] # header

\* row[colIndex] || null (null is <<>>), currency values cleaned
advancedCell(row, j) ==
  LET cleaned(value) ==
        IF currencyRegex(value)
        THEN replaceFirst(replaceAll(value, {"R", "$"} \cup WhiteSpace, <<>>), ",", <<".">>)
        ELSE value
  IN  IF j > Len(row) THEN <<>> ELSE cleaned(row[j])

\* one element of rowData; index is 0-based as in the code
advancedRowDatum(fileId, headers, row, index) ==
  [file_id   |-> fileId,
   row_index |-> index,
   data      |-> [h \in Range(headers) |-> advancedCell(row, lastIndexOf(headers, h))]]

\* the log lines of the handler
advancedLog(body, parsedFile, qualityReport, columnData) ==
  << <<"Processando", body.filename, body.size>>,
     <<"Detectados", Len(parsedFile.headers), Len(parsedFile.rows)>>,
     <<"Início dos dados na linha", parsedFile.metadata.dataStartRow>> >>
  \o (IF parsedFile.metadata.hasMultipleSheets
      THEN << <<"Arquivo Excel com abas", Len(parsedFile.sheets)>> >> ELSE <<>>)
  \o << <<"Qualidade dos dados", qualityReport.dataCompleteness>> >>
  \o (IF Len(qualityReport.suggestedCleanup) > 0
      THEN << <<"Sugestões de limpeza", qualityReport.suggestedCleanup>> >> ELSE <<>>)
  \o [k \in 1..Len(columnData) |->
        <<columnData[k].column_name, columnData[k].column_type,
          Len(columnData[k].sample_values)>>]

\* the StoredFile that the handler passes to fileStorage.set
advancedStoredFile(body, parsedFile, qualityReport, columnData) ==
  [metadata |->
     [id                |-> body.fileId,
      filename          |-> body.fileId,
      original_name     |-> body.filename,
      file_size         |-> body.size,
      mime_type         |-> body.mimeType,
      status            |-> "completed",
      sheets            |-> parsedFile.sheets,
      dataStartRow      |-> parsedFile.metadata.dataStartRow,
      dataQuality       |-> qualityReport,
      fileType          |-> parsedFile.metadata.fileType,
      extractedSections |-> parsedFile.metadata.extractedSections,
      totalRows         |-> parsedFile.metadata.totalRows,
      totalColumns      |-> parsedFile.metadata.totalColumns,
      hasMultipleSheets |-> parsedFile.metadata.hasMultipleSheets,
      detectedHeaders   |-> parsedFile.metadata.detectedHeaders],
   columns |-> columnData,
   rows |-> [i \in 1..Len(parsedFile.rows) |->
               advancedRowDatum(body.fileId, parsedFile.headers, parsedFile.rows[i], i - 1)],
   processingLog |-> advancedLog(body, parsedFile, qualityReport, columnData)]

\* lines 87-100: the column records of the parsed file
advancedColumnData(fileId, parsedFile) ==
  [k \in 1..Len(parsedFile.headers) |->
     columnDatum(fileId, parsedFile.headers[k], columnValues(parsedFile.rows, k),
                 detectColumnType(columnValues(parsedFile.rows, k)))]

\* What POST of part_000 does with a body: the entry it stores and the
\* response it sends.  Nothing on this path throws, so every body is
\* stored and answered with success.
advancedPost(body) ==
  LET lastFive(log) == SubSeq(log, IF Len(log) > 5 THEN Len(log) - 4 ELSE 1, Len(log))
      respond(stored, parsedFile, qualityReport) ==
        [stored   |-> <<stored>>,
         response |-> [status        |-> 200,
                       success       |-> TRUE,
                       fileId        |-> body.fileId,
                       rowCount      |-> Len(parsedFile.rows),
                       columnCount   |-> Len(parsedFile.headers),
                       dataQuality   |-> qualityReport,
                       metadata      |-> parsedFile.metadata,
                       processingLog |-> lastFive(stored.processingLog)]]
      built(parsedFile, qualityReport) ==
        respond(advancedStoredFile(body, parsedFile, qualityReport,
                                   advancedColumnData(body.fileId, parsedFile)),
                parsedFile, qualityReport)
      analysed(parsedFile) ==
        built(parsedFile, analyzeDataQuality(parsedFile.headers, parsedFile.rows))
  IN  analysed(processFile(body.content, body.filename, body.mimeType, body.workbook))

(***************************************************************************)
(* The process-file handler of src/app/api/process-file/route.ts, with its *)
(* own parser, its own detectColumnType and its own Map.                   *)
(***************************************************************************)
RECURSIVE ParseCSVRow(_, _, _, _, _)
\* the inner for loop of parseCSV from the 1-based position i
ParseCSVRow(line, i, row, current, inQuotes) ==
  IF i > Len(line) THEN Append(row, trim(current))
  ELSE IF line[i] = "\"" /\ (i = 1 \/ line[i - 1] = ",")
  THEN ParseCSVRow(line, i + 1, row, current, TRUE)
  ELSE IF line[i] = "\"" /\ inQuotes /\ (i = Len(line) \/ line[i + 1] = ",")
  THEN ParseCSVRow(line, i + 1, row, current, FALSE)
  ELSE IF line[i] = "," /\ ~inQuotes
  THEN ParseCSVRow(line, i + 1, Append(row, trim(current)), <<>>, inQuotes)
  ELSE ParseCSVRow(line, i + 1, row, Append(current, line[i]), inQuotes)

parseCSV(csvText) ==
  LET rowsOf(lines) == [i \in 1..Len(lines) |-> ParseCSVRow(lines[i], 1, <<>>, <<>>, FALSE)]
  IN  rowsOf(SelectSeq(splitLines(csvText), LAMBDA line : trim(line) # <<>>))

\* detectColumnType of route.ts on an engine that accepts engineDates
detectColumnTypeSimpleOn(values, engineDates) ==
  LET typeOf(vs) ==
        IF Len(vs) = 0 THEN "string"
        ELSE IF CountIf(vs, LAMBDA v : ~NumberIsNaN(v)) = Len(vs) THEN "number"
        ELSE IF CountIf(vs, LAMBDA v : dateParses(v, engineDates)) = Len(vs) THEN "date"
        ELSE IF CountIf(vs, LAMBDA v :
                   \/ toLowerCase(v) \in {<<"t", "r", "u", "e">>, <<"f", "a", "l", "s", "e">>}
                   \/ v \in {<<"1">>, <<"0">>}) = Len(vs)
        THEN "boolean"
        ELSE "string"
  IN  typeOf(nonEmptyValues(values))

\* detectColumnType of route.ts for uploads none of whose strings the
\* engine's fallback accepts
detectColumnTypeSimple(values) == detectColumnTypeSimpleOn(values, {})

\* one element of rowData: rowObject[header] = row[colIndex] || null
simpleRowDatum(fileId, headers, row, index) ==
  [file_id   |-> fileId,
   row_index |-> index,
   data      |-> [h \in Range(headers) |->
                    IF lastIndexOf(headers, h) > Len(row) THEN <<>>
                    ELSE row[lastIndexOf(headers, h)]]]

\* the entry that the handler passes to its Map's set
simpleStoredFile(body, headers, dataRows) ==
  [metadata |-> [id            |-> body.fileId,
                 filename      |-> body.fileId,
                 original_name |-> body.filename,
                 file_size     |-> body.size,
                 mime_type     |-> body.mimeType,
                 status        |-> "completed"],
   columns |-> [k \in 1..Len(headers) |->
                  columnDatum(body.fileId, headers[k], columnValues(dataRows, k),
                              detectColumnTypeSimple(columnValues(dataRows, k)))],
   rows |-> [i \in 1..Len(dataRows) |-> simpleRowDatum(body.fileId, headers, dataRows[i], i - 1)]]

\* What POST of route.ts does with a body: the entry it stores, if any, and
\* the response it sends.  Zero rows throw, and the catch answers with 500.
simplePost(body) ==
  LET handled(rows) ==
        IF Len(rows) = 0
        THEN [stored   |-> <<>>,
              response |-> [status |-> 500, error |-> "No data found in file"]]
        ELSE [stored   |-> << simpleStoredFile(body, rows[1], Tail(rows)) >>,
              response |-> [status      |-> 200,
                            success     |-> TRUE,
                            fileId      |-> body.fileId,
                            rowCount    |-> Len(rows) - 1,
                            columnCount |-> Len(rows[1])]]
  IN  handled(parseCSV(body.content))

(***************************************************************************)
(* FileCache (src/lib/file-cache.ts) and FileStorage (src/unnamed/part_002)*)
(* The cache directory is a function from file ids to files; a file is     *)
(* absent, holds the complete JSON text of an entry, or holds an           *)
(* incomplete text that a failed write left behind.  The Map of            *)
(* FileStorage is a function from file ids to <<>> (no key) or <<entry>>.  *)
(* The text of a file is kept as <<the value JSON.parse makes of it>>.     *)
(***************************************************************************)
NoFile == [exists |-> FALSE, text |-> <<>>]

\* JSON.parse(JSON.stringify(data)) of an entry: its strings, booleans,
\* nulls, arrays and objects come back as they were, and so does a number
\* unless it is NaN, which comes back as null.  dataCompleteness is the one
\* number of an entry that a division makes.
JSONRoundTrip(data) ==
  [data EXCEPT !.metadata.dataQuality.dataCompleteness = IF isNaN(@) THEN <<>> ELSE @]

\* the file after fs.writeFileSync(filePath, JSON.stringify(data)) returned,
\* by what JSON.parse makes of its text
JSONFile(data) == [exists |-> TRUE, text |-> <<JSONRoundTrip(data)>>]

\* the file after a write that threw part of the way
PartialFile == [exists |-> TRUE, text |-> <<>>]

\* how the disk treats one writeFileSync: it returns, it throws leaving the
\* directory as it was, or it throws leaving an incomplete file
DiskOutcomes == {"written", "failed", "partial"}

\* FileCache.set: the catch swallows a failed write
FileCacheSet(files, fileId, data, disk) ==
  IF disk = "written" THEN [files EXCEPT ![fileId] = JSONFile(data)]
  ELSE IF disk = "partial" THEN [files EXCEPT ![fileId] = PartialFile]
  ELSE files

\* FileCache.get: <<>> for null (no file, or JSON.parse threw)
FileCacheGet(files, fileId) ==
  IF files[fileId].exists THEN files[fileId].text ELSE <<>>

FileCacheHas(files, fileId) == files[fileId].exists

\* FileCache.list, as a set
FileCacheList(files) == {f \in DOMAIN files : files[f].exists}

FileCacheDelete(files, fileId) == [files EXCEPT ![fileId] = NoFile]

FileCacheClear(files) == [f \in DOMAIN files |-> NoFile]

\* fileStorage.set with memory-and-cache merged field by field instead of
\* replaced: the rows of the entry that was there are kept
FileStorageSet_keepsOldRows(memory, files, fileId, data, disk) ==
  [memory |-> [memory EXCEPT ![fileId] =
                 IF memory[fileId] = <<>> THEN <<data>>
                 ELSE << [data EXCEPT !.rows = memory[fileId][1].rows] >>],
   files  |-> FileCacheSet(files, fileId, data, disk)]

\* fileStorage.set that writes the cache first and lets its failure through:
\* the Map is written only after the file was
FileStorageSet_cacheFirst(memory, files, fileId, data, disk) ==
  [memory |-> IF disk = "written" THEN [memory EXCEPT ![fileId] = <<data>>] ELSE memory,
   files  |-> FileCacheSet(files, fileId, data, disk)]

\* FileStorage.set: the Map and the cache directory afterwards
FileStorageSet(memory, files, fileId, data, disk) ==
  [memory |-> [memory EXCEPT ![fileId] = <<data>>],
   files  |-> FileCacheSet(files, fileId, data, disk)]

\* fileStorage.get that hands the entry over: the key leaves the Map
FileStorageGet_takes(memory, files, fileId) ==
  IF memory[fileId] # <<>>
  THEN [data |-> memory[fileId], memory |-> [memory EXCEPT ![fileId] = <<>>]]
  ELSE [data |-> FileCacheGet(files, fileId), memory |-> memory]

\* FileStorage.get: what it returns (<<>> for undefined) and the Map
\* afterwards, which holds the entry restored from the cache
FileStorageGet(memory, files, fileId) ==
  IF memory[fileId] # <<>>
  THEN [data |-> memory[fileId], memory |-> memory]
  ELSE [data   |-> FileCacheGet(files, fileId),
        memory |-> [memory EXCEPT ![fileId] = FileCacheGet(files, fileId)]]

FileStorageHas(memory, files, fileId) ==
  memory[fileId] # <<>> \/ FileCacheHas(files, fileId)

\* FileStorage.keys, as a set
FileStorageKeys(memory, files) ==
  {f \in DOMAIN memory : memory[f] # <<>>} \cup FileCacheList(files)

FileStorageSize(memory, files) == Cardinality(FileStorageKeys(memory, files))

(***************************************************************************)
(* DataAnalyzer (src/lib/data-analyzer-new.ts).                            *)
(* A row is the data object of a stored row: a function from column names  *)
(* to cells, a cell being a string or <<>> for null.  A text that a        *)
(* template prints is kept as a tuple <<kind, arguments...>>.              *)
(***************************************************************************)
\* row[name]: <<>> also stands for undefined
Lookup(row, name) == IF name \in DOMAIN row THEN row[name] ELSE <<>>

\* rows.map(row => row[name]).filter(v => v !== null && v !== undefined && v !== "")
presentValues(rows, name) ==
  SelectSeq([i \in 1..Len(rows) |-> Lookup(rows[i], name)], LAMBDA v : v # <<>>)

\* Math.min of a non-empty sequence of numbers
RatMin(qs) == CHOOSE m \in Range(qs) : \A q \in Range(qs) : ~RatLess(q, m)

\* Math.max of a non-empty sequence of numbers
RatMax(qs) == CHOOSE m \in Range(qs) : \A q \in Range(qs) : ~RatLess(m, q)

RECURSIVE RatSum(_)
\* values.reduce((a, b) => a + b, 0); the sum of rationals does not depend
\* on the grouping, and halving keeps the recursion shallow
RatSum(qs) ==
  IF qs = <<>> THEN Rat(0, 1)
  ELSE IF Len(qs) = 1 THEN qs[1]
  ELSE RatAdd(RatSum(SubSeq(qs, 1, Len(qs) \div 2)),
              RatSum(SubSeq(qs, (Len(qs) \div 2) + 1, Len(qs))))

\* /^[^\s@]+@[^\s@]+\.[^\s@]+$/
emailRegex(v) ==
  /\ \A i \in 1..Len(v) : v[i] \notin WhiteSpace
  /\ Cardinality({i \in 1..Len(v) : v[i] = "@"}) = 1
  /\ \E a \in 2..Len(v) : v[a] = "@" /\ \E p \in (a + 2)..(Len(v) - 1) : v[p] = "."

\* /^\+?[\d\s\-()]+$/
phoneRegex(v) ==
  LET from(k) ==
        /\ k <= Len(v)
        /\ \A i \in k..Len(v) : IsDigit(v[i]) \/ v[i] \in WhiteSpace \cup {"-", "(", ")"}
  IN  from(IF CharAt(v, 1) = "+" THEN 2 ELSE 1)

\* /^\d{1,2}\/\d{1,2}\/\d{2,4}$/
slashDateRegex(v) ==
  LET after(a, b, c) ==
        /\ a - 1 \in 1..2 /\ CharAt(v, a) = "/"
        /\ b - (a + 1) \in 1..2 /\ CharAt(v, b) = "/"
        /\ c - (b + 1) \in 2..4 /\ c = Len(v) + 1
      second(a, b) == after(a, b, DigitsEnd(v, b + 1))
      first(a) == second(a, DigitsEnd(v, a + 1))
  IN  first(DigitsEnd(v, 1))

\* /^[A-Z]{2,}\d+$/
codeRegex(v) ==
  \E k \in 3..Len(v) :
    /\ \A i \in 1..(k - 1) : v[i] \in Range(UpperChars)
    /\ \A i \in k..Len(v) : IsDigit(v[i])

\* detectPatterns: the first pattern that more than 80% of the values
\* match, <<>> for undefined
detectPatterns(values) ==
  LET over(Test(_)) == CountIf(values, Test) * 10 > Len(values) * 8
  IN  IF Len(values) = 0 THEN <<>>
      ELSE IF over(emailRegex) THEN <<"email">>
      ELSE IF over(phoneRegex) THEN <<"phone">>
      ELSE IF over(currencyRegex) THEN <<"currency">>
      ELSE IF over(slashDateRegex) THEN <<"date">>
      ELSE IF over(codeRegex) THEN <<"code">>
      ELSE <<>>

\* values.map(v => parseFloat(v.toString().replace(/[R$\s,]/g, '.'))).filter(v => !isNaN(v))
numericValues(values) ==
  SelectSeq([i \in 1..Len(values) |->
               parseFloat(replaceAll(values[i], {"R", "$", ","} \cup WhiteSpace, <<".">>))],
            LAMBDA q : ~isNaN(q))

\* analyzeColumn; an optional field (isKey, min, max, avg, pattern) that
\* the code leaves unset is <<>>
analyzeColumn(column, rows) ==
  LET stats(nums) ==
        IF column.type = "number" /\ Len(nums) > 0
        THEN << RatMin(nums), RatMax(nums), RatDivInt(RatSum(nums), Len(nums)) >>
        ELSE <<>>
      enhanced(values, st) ==
        [name         |-> column.name,
         type         |-> column.type,
         sampleValues |-> column.sampleValues,
         uniqueValues |-> Cardinality(Range(values)),
         nullCount    |-> Len(rows) - Len(values),
         isKey        |-> IF Cardinality(Range(values)) = Len(values) /\ Len(values) > 0
                          THEN <<TRUE>> ELSE <<>>,
         min          |-> IF st = <<>> THEN <<>> ELSE <<st[1]>>,
         max          |-> IF st = <<>> THEN <<>> ELSE <<st[2]>>,
         avg          |-> IF st = <<>> THEN <<>> ELSE <<st[3]>>,
         pattern      |-> IF column.type = "string" /\ Len(values) > 0
                          THEN detectPatterns(values) ELSE <<>>]
      of(values) == enhanced(values, stats(numericValues(values)))
  IN  of(presentValues(rows, column.name))

\* assessDataQuality with a column inconsistent from a null rate of 20% on
assessDataQuality_fromTwenty(columns, rows) ==
  LET filledCells == SumSeq([c \in 1..Len(columns) |-> Len(presentValues(rows, columns[c].name))])
      inconsistent(col) ==
        Len(rows) > 0 /\ col.nullCount * 100 >= 20 * Len(rows)
      report(completeness, consistency) ==
        [completeness |-> completeness,
         consistency  |-> consistency,
         suggestions  |->
           (IF RatLess(completeness, Rat(70, 1)) THEN << <<"Dados incompletos">> >> ELSE <<>>)
           \o (IF RatLess(consistency, Rat(80, 1)) THEN << <<"muitos valores vazios">> >> ELSE <<>>)
           \o Flatten([c \in 1..Len(columns) |->
                         IF columns[c].isKey # <<>> /\ columns[c].uniqueValues # Len(rows)
                         THEN << <<"pode ter valores duplicados", columns[c].name>> >>
                         ELSE <<>>])]
  IN  report(IF Len(columns) * Len(rows) > 0
             THEN Rat(filledCells * 100, Len(columns) * Len(rows)) ELSE Rat(0, 1),
             IF Len(columns) > 0
             THEN Rat((Len(columns) - CountIf(columns, inconsistent)) * 100, Len(columns))
             ELSE Rat(100, 1))

\* assessDataQuality; completeness and consistency are rationals, and a
\* division 0/0 is NaN, which no comparison holds for
assessDataQuality(columns, rows) ==
  LET filledCells == SumSeq([c \in 1..Len(columns) |-> Len(presentValues(rows, columns[c].name))])
      inconsistent(col) ==
        Len(rows) > 0 /\ col.nullCount * 100 > 20 * Len(rows)
      report(completeness, consistency) ==
        [completeness |-> completeness,
         consistency  |-> consistency,
         suggestions  |->
           (IF RatLess(completeness, Rat(70, 1)) THEN << <<"Dados incompletos">> >> ELSE <<>>)
           \o (IF RatLess(consistency, Rat(80, 1)) THEN << <<"muitos valores vazios">> >> ELSE <<>>)
           \o Flatten([c \in 1..Len(columns) |->
                         IF columns[c].isKey # <<>> /\ columns[c].uniqueValues # Len(rows)
                         THEN << <<"pode ter valores duplicados", columns[c].name>> >>
                         ELSE <<>>])]
  IN  report(IF Len(columns) * Len(rows) > 0
             THEN Rat(filledCells * 100, Len(columns) * Len(rows)) ELSE Rat(0, 1),
             IF Len(columns) > 0
             THEN Rat((Len(columns) - CountIf(columns, inconsistent)) * 100, Len(columns))
             ELSE Rat(100, 1))

\* generateInsights
generateInsights(columns, rows) ==
  LET keyColumns == SelectSeq(columns, LAMBDA col : col.isKey # <<>>)
      numeric(col) ==
        IF col.type = "number" /\ col.min # <<>> /\ col.max # <<>> /\ col.avg # <<>>
        THEN << <<"Variação", col.name, col.min[1], col.max[1], col.avg[1]>> >>
        ELSE <<>>
      categorical(col) ==
        IF col.type = "string" /\ col.isKey = <<>>
        THEN IF col.uniqueValues <= 10
             THEN << <<"categorias distintas", col.name, col.uniqueValues>> >>
             ELSE IF col.uniqueValues * 10 > Len(rows) * 8
             THEN << <<"Muitas categorias únicas", col.name>> >>
             ELSE <<>>
        ELSE <<>>
  IN  (IF Len(keyColumns) > 0
       THEN << <<"coluna(s) chave", [k \in 1..Len(keyColumns) |-> keyColumns[k].name]>> >>
       ELSE <<>>)
      \o Flatten([c \in 1..Len(columns) |-> numeric(columns[c])])
      \o Flatten([c \in 1..Len(columns) |-> categorical(columns[c])])

\* a ChartSuggestion whose axes are exchanged
Suggestion_axesExchanged(type, xColumn, yColumn, confidence, reasoning) ==
  [type        |-> type,
   title       |-> <<type, xColumn, yColumn>>,
   xColumn     |-> yColumn,
   yColumn     |-> xColumn,
   description |-> <<type, xColumn, yColumn>>,
   confidence  |-> confidence,
   reasoning   |-> reasoning]

\* one ChartSuggestion; yColumn is <<>> when the suggestion has none, and
\* title, description and reasoning are the values their templates print
Suggestion(type, xColumn, yColumn, confidence, reasoning) ==
  [type        |-> type,
   title       |-> <<type, xColumn, yColumn>>,
   xColumn     |-> xColumn,
   yColumn     |-> yColumn,
   description |-> <<type, xColumn, yColumn>>,
   confidence  |-> confidence,
   reasoning   |-> reasoning]

\* the pairs <<i, j>> with i < j <= n in the order of the two nested loops
RECURSIVE LoopPairs(_, _, _)
LoopPairs(i, j, n) ==
  IF i > n THEN <<>>
  ELSE IF j > n THEN LoopPairs(i + 1, i + 2, n)
  ELSE << <<i, j>> >> \o LoopPairs(i, j + 1, n)

\* the suggestions in the order in which generateChartSuggestions pushes them
generatedSuggestions(columns, rows) ==
  LET all(numericColumns, categoricalColumns, dateColumns) ==
        Flatten([c \in 1..Len(categoricalColumns) |->
                   Flatten([m \in 1..Len(numericColumns) |->
                              IF categoricalColumns[c].uniqueValues <= 20
                              THEN << Suggestion("bar", categoricalColumns[c].name,
                                                 <<numericColumns[m].name>>, Rat(8, 10),
                                                 <<categoricalColumns[c].uniqueValues>>) >>
                              ELSE <<>>])])
        \o Flatten([c \in 1..Len(categoricalColumns) |->
                      IF categoricalColumns[c].uniqueValues <= 10
                         /\ categoricalColumns[c].uniqueValues >= 2
                      THEN << Suggestion("pie", categoricalColumns[c].name, <<>>, Rat(7, 10),
                                         <<categoricalColumns[c].uniqueValues>>) >>
                      ELSE <<>>])
        \o Flatten([d \in 1..Len(dateColumns) |->
                      [m \in 1..Len(numericColumns) |->
                         Suggestion("line", dateColumns[d].name, <<numericColumns[m].name>>,
                                    Rat(9, 10), <<>>)]])
        \o [p \in 1..Len(LoopPairs(1, 2, Len(numericColumns))) |->
              Suggestion("scatter",
                         numericColumns[LoopPairs(1, 2, Len(numericColumns))[p][1]].name,
                         <<numericColumns[LoopPairs(1, 2, Len(numericColumns))[p][2]].name>>,
                         Rat(6, 10), <<>>)]
        \o (IF Len(dateColumns) > 0 /\ Len(numericColumns) > 0
            THEN << Suggestion("area", dateColumns[1].name, <<numericColumns[1].name>>,
                               Rat(8, 10), <<>>) >>
            ELSE <<>>)
  IN  all(SelectSeq(columns, LAMBDA col : col.type = "number"),
          SelectSeq(columns, LAMBDA col : col.type = "string"
                                           /\ col.uniqueValues * 2 < Len(rows)),
          SelectSeq(columns, LAMBDA col : col.type = "date"))

\* toSorted with the comparator reversed: ascending confidence
RECURSIVE toSortedByConfidence_ascending(_)
toSortedByConfidence_ascending(suggestions) ==
  IF suggestions = <<>> THEN <<>>
  ELSE LET insert(sorted, s) ==
             LET k == Cardinality({i \in 1..Len(sorted) :
                                     ~RatLess(s.confidence, sorted[i].confidence)})
             IN  SubSeq(sorted, 1, k) \o <<s>> \o SubSeq(sorted, k + 1, Len(sorted))
       IN  insert(toSortedByConfidence_ascending(SubSeq(suggestions, 1, Len(suggestions) - 1)),
                  suggestions[Len(suggestions)])

\* suggestions.toSorted((a, b) => b.confidence - a.confidence): the stable
\* sort, by inserting each suggestion behind those that do not sort after it
RECURSIVE toSortedByConfidence(_)
toSortedByConfidence(suggestions) ==
  IF suggestions = <<>> THEN <<>>
  ELSE LET insert(sorted, s) ==
             LET k == Cardinality({i \in 1..Len(sorted) :
                                     ~RatLess(sorted[i].confidence, s.confidence)})
             IN  SubSeq(sorted, 1, k) \o <<s>> \o SubSeq(sorted, k + 1, Len(sorted))
       IN  insert(toSortedByConfidence(SubSeq(suggestions, 1, Len(suggestions) - 1)),
                  suggestions[Len(suggestions)])

\* generateChartSuggestions: sorted, and the first 6
generateChartSuggestions(columns, rows) ==
  LET top(sorted) == SubSeq(sorted, 1, Min(6, Len(sorted)))
  IN  top(toSortedByConfidence(generatedSuggestions(columns, rows)))

\* DataAnalyzer.analyzeData
analyzeData(columns, rows) ==
  LET analysis(enhancedColumns) ==
        [columns         |-> enhancedColumns,
         rowCount        |-> Len(rows),
         suggestedCharts |-> generateChartSuggestions(enhancedColumns, rows),
         dataQuality     |-> assessDataQuality(enhancedColumns, rows),
         insights        |-> generateInsights(enhancedColumns, rows)]
  IN  analysis([c \in 1..Len(columns) |-> analyzeColumn(columns[c], rows)])

(***************************************************************************)
(* The analyze-data handler (src/app/api/analyze-data/route.ts, GET).      *)
(* DataAnalyzer.analyzeBudgetData and DataAnalyzer.analyzeExpenseReport    *)
(* are called by the handler but are not part of the source at hand; each  *)
(* is kept as the uninterpreted term of its arguments.                     *)
(***************************************************************************)
\* the fileId of a request that carries none
NoFileId == 0

analyzeBudgetData(dataRows, fileType) ==
  [columns         |-> <<"analyzeBudgetData", "columns", dataRows, fileType>>,
   rowCount        |-> <<"analyzeBudgetData", "rowCount", dataRows, fileType>>,
   suggestedCharts |-> <<"analyzeBudgetData", "suggestedCharts", dataRows, fileType>>,
   dataQuality     |-> <<"analyzeBudgetData", "dataQuality", dataRows, fileType>>,
   insights        |-> <<"analyzeBudgetData", "insights", dataRows, fileType>>]

analyzeExpenseData(dataRows) ==
  [columns         |-> <<"analyzeExpenseReport", "columns", dataRows>>,
   rowCount        |-> <<"analyzeExpenseReport", "rowCount", dataRows>>,
   suggestedCharts |-> <<"analyzeExpenseReport", "suggestedCharts", dataRows>>,
   dataQuality     |-> <<"analyzeExpenseReport", "dataQuality", dataRows>>,
   insights        |-> <<"analyzeExpenseReport", "insights", dataRows>>]

\* fileData.rows.map(row => row.data)
dataRowsOf(fileData) == [i \in 1..Len(fileData.rows) |-> fileData.rows[i].data]

\* lines 31-71: the response for an entry that was found
analysisResponse(fileData) ==
  LET columns == [c \in 1..Len(fileData.columns) |->
                    [name         |-> fileData.columns[c].column_name,
                     type         |-> fileData.columns[c].column_type,
                     sampleValues |-> fileData.columns[c].sample_values]]
      answer(analysis) ==
        [status |-> 200, analysis |-> analysis, file |-> fileData.metadata]
  IN  IF fileData.metadata.fileType = "budget_layout"
      THEN answer(analyzeBudgetData(dataRowsOf(fileData), fileData.metadata.fileType))
      ELSE IF fileData.metadata.fileType = "expense_report"
      THEN answer(analyzeExpenseData(dataRowsOf(fileData)))
      ELSE answer(analyzeData(columns, dataRowsOf(fileData)))

\* GET: the response, and the Map of FileStorage after fileStorage.get
analyzeGet(memory, files, fileId) ==
  LET answered(got) ==
        [memory   |-> got.memory,
         response |-> IF got.data = <<>>
                      THEN [status         |-> 404,
                            error          |-> "File not found",
                            availableFiles |-> FileStorageKeys(memory, files),
                            requestedFile  |-> fileId]
                      ELSE analysisResponse(got.data[1])]
  IN  IF fileId = NoFileId
      THEN [memory |-> memory, response |-> [status |-> 400, error |-> "File ID is required"]]
      ELSE answered(FileStorageGet(memory, files, fileId))

(***************************************************************************)
(* The get-chart-data handler (src/app/api/get-chart-data/route.ts, POST). *)
(* It reads the Map that src/app/api/process-file/route.ts exports.  A     *)
(* request is [fileId, chartType, xColumn, yColumn, aggregateFunction];    *)
(* a missing chartType is "", a missing xColumn or yColumn is <<>>, and    *)
(* aggregateFunction is <<>> when missing, else <<name>>.  A point is a    *)
(* function from property names to values.  Sums are exact.                *)
(***************************************************************************)
kName == <<"n", "a", "m", "e">>
kValue == <<"v", "a", "l", "u", "e">>
kX == <<"x">>
kY == <<"y">>

\* an object literal { k1: v1, k2: v2, ... }: a later property of the same
\* name replaces the earlier one
ObjectOf(pairs) ==
  [k \in {pairs[i][1] : i \in 1..Len(pairs)} |->
     pairs[CHOOSE i \in 1..Len(pairs) :
             pairs[i][1] = k /\ \A j \in (i + 1)..Len(pairs) : pairs[j][1] # k][2]]

\* the elements of the sequence without repetition, in first-seen order
distinctInOrder(s) ==
  LET pick(firsts) == [k \in 1..Len(firsts) |-> s[firsts[k]]]
  IN  pick(SelectSeq([i \in 1..Len(s) |-> i],
                     LAMBDA i : \A j \in 1..(i - 1) : s[j] # s[i]))

\* the number that the digits of the key before its last five (indexHigh)
\* and its last five (indexLow) spell; the key spells indexHigh * 10^5 + indexLow
indexHigh(key) == IF Len(key) > 5 THEN DigitsValue(key, 1, Len(key) - 4) ELSE 0
indexLow(key) ==
  IF Len(key) > 5 THEN DigitsValue(key, Len(key) - 4, Len(key) + 1)
  ELSE DigitsValue(key, 1, Len(key) + 1)

\* the numbers that two keys of digits spell are in order
indexLeq(k, h) ==
  \/ indexHigh(k) < indexHigh(h)
  \/ indexHigh(k) = indexHigh(h) /\ indexLow(k) <= indexLow(h)

\* a property name that is a canonical array index: "0", or digits without
\* a leading zero that spell a number below 2^32 - 1 = 4294967295
isArrayIndex(key) ==
  /\ Len(key) \in 1..10
  /\ \A i \in 1..Len(key) : IsDigit(key[i])
  /\ (key[1] # "0" \/ Len(key) = 1)
  /\ \/ indexHigh(key) < 42949
     \/ indexHigh(key) = 42949 /\ indexLow(key) < 67295

RECURSIVE ascendingIndices(_)
\* the array-index keys of the set in ascending numeric order
ascendingIndices(keys) ==
  IF keys = {} THEN <<>>
  ELSE LET least == CHOOSE k \in keys : \A h \in keys : indexLeq(k, h)
       IN  <<least>> \o ascendingIndices(keys \ {least})

\* the order in which Object.entries lists the keys inserted in the given
\* order: array indices ascending, then the other keys as inserted
objectKeys(inserted) ==
  ascendingIndices({k \in Range(inserted) : isArrayIndex(k)})
  \o SelectSeq(inserted, LAMBDA k : ~isArrayIndex(k))

\* parseFloat(cell) || 0
floatOrZero(cell) ==
  LET orZero(q) == IF isNaN(q) THEN Rat(0, 1) ELSE q
  IN  orZero(parseFloat(cell))

\* the property names that every object literal inherits from Object.prototype
ObjectPrototypeKeys ==
  { <<"c", "o", "n", "s", "t", "r", "u", "c", "t", "o", "r">>,
    <<"_", "_", "p", "r", "o", "t", "o", "_", "_">>,
    <<"t", "o", "S", "t", "r", "i", "n", "g">>,
    <<"v", "a", "l", "u", "e", "O", "f">>,
    <<"h", "a", "s", "O", "w", "n", "P", "r", "o", "p", "e", "r", "t", "y">>,
    <<"i", "s", "P", "r", "o", "t", "o", "t", "y", "p", "e", "O", "f">>,
    <<"p", "r", "o", "p", "e", "r", "t", "y", "I", "s", "E", "n", "u", "m", "e", "r", "a", "b", "l", "e">>,
    <<"t", "o", "L", "o", "c", "a", "l", "e", "S", "t", "r", "i", "n", "g">>,
    <<"_", "_", "d", "e", "f", "i", "n", "e", "G", "e", "t", "t", "e", "r", "_", "_">>,
    <<"_", "_", "d", "e", "f", "i", "n", "e", "S", "e", "t", "t", "e", "r", "_", "_">>,
    <<"_", "_", "l", "o", "o", "k", "u", "p", "G", "e", "t", "t", "e", "r", "_", "_">>,
    <<"_", "_", "l", "o", "o", "k", "u", "p", "S", "e", "t", "t", "e", "r", "_", "_">> }

\* the name whose assignment sets the prototype instead of a property
protoKey == <<"_", "_", "p", "r", "o", "t", "o", "_", "_">>

\* a series that was built, and a series whose building threw
Built(points) == [thrown |-> <<>>, data |-> points]
Thrown(message) == [thrown |-> <<message>>, data |-> <<>>]

\* lines 30-43 and 88-102: the number of rows per truthy value of xColumn.
\* counts[value] || 0 reads an inherited property for a value that names
\* one: its count is the text of that property followed by a 1 per row,
\* kept as [inherited, ones]; __proto__ never becomes a property.
countSeries(dataRows, xColumn) ==
  LET count(values, key) == CountIf(values, LAMBDA v : v = key)
      points(values, keys) ==
        [k \in 1..Len(keys) |->
           ObjectOf(<< <<kName, keys[k]>>,
                       <<kValue, IF keys[k] \in ObjectPrototypeKeys
                                 THEN [inherited |-> keys[k], ones |-> count(values, keys[k])]
                                 ELSE Rat(count(values, keys[k]), 1)>> >>)]
      counted(values) ==
        points(values,
               objectKeys(SelectSeq(distinctInOrder(values), LAMBDA v : v # protoKey)))
  IN  Built(counted(presentValues(dataRows, xColumn)))

\* lines 44-71.  groups[x] reads an inherited property for an x that names
\* one, so that no array is made for it and groups[x].push throws.
barSeries(dataRows, xColumn, yColumn, aggregateFunction) ==
  LET grouped == SelectSeq(dataRows, LAMBDA row : Lookup(row, xColumn) # <<>>)
      valuesOf(key) ==
        [i \in 1..CountIf(grouped, LAMBDA row : Lookup(row, xColumn) = key) |->
           floatOrZero(Lookup(SelectSeq(grouped, LAMBDA row : Lookup(row, xColumn) = key)[i],
                              yColumn))]
      aggregated(values) ==
        IF aggregateFunction = "sum" THEN RatSum(values)
        ELSE IF aggregateFunction = "avg" THEN RatDivInt(RatSum(values), Len(values))
        ELSE Rat(Len(values), 1)
      point(name, aggregatedValue) ==
        ObjectOf(<< <<kName, name>>, <<kValue, aggregatedValue>>, <<yColumn, aggregatedValue>> >>)
      points(keys) == [k \in 1..Len(keys) |-> point(keys[k], aggregated(valuesOf(keys[k])))]
  IN  IF \E i \in 1..Len(grouped) : Lookup(grouped[i], xColumn) \in ObjectPrototypeKeys
      THEN Thrown("groups[x].push is not a function")
      ELSE Built(points(objectKeys(distinctInOrder(presentValues(dataRows, xColumn)))))

\* lines 72-79
lineSeries(dataRows, xColumn, yColumn) ==
  Built([i \in 1..Len(dataRows) |->
           ObjectOf(<< <<kName, Lookup(dataRows[i], xColumn)>>,
                       <<kValue, floatOrZero(Lookup(dataRows[i], yColumn))>>,
                       <<xColumn, Lookup(dataRows[i], xColumn)>>,
                       <<yColumn, floatOrZero(Lookup(dataRows[i], yColumn))>> >>)])

\* lines 80-87
scatterSeries(dataRows, xColumn, yColumn) ==
  Built([i \in 1..Len(dataRows) |->
           ObjectOf(<< <<kX, floatOrZero(Lookup(dataRows[i], xColumn))>>,
                       <<kY, floatOrZero(Lookup(dataRows[i], yColumn))>>,
                       <<xColumn, floatOrZero(Lookup(dataRows[i], xColumn))>>,
                       <<yColumn, floatOrZero(Lookup(dataRows[i], yColumn))>> >>)])

\* chartData with a default branch that leaves the series empty
chartData_emptyDefault(dataRows, request) ==
  LET aggregateFunction ==
        IF request.aggregateFunction = <<>> THEN "sum" ELSE request.aggregateFunction[1]
  IN  IF request.chartType = "pie" THEN countSeries(dataRows, request.xColumn)
      ELSE IF request.chartType = "bar" /\ request.yColumn # <<>>
      THEN barSeries(dataRows, request.xColumn, request.yColumn, aggregateFunction)
      ELSE IF request.chartType = "line" /\ request.yColumn # <<>>
      THEN lineSeries(dataRows, request.xColumn, request.yColumn)
      ELSE IF request.chartType = "scatter" /\ request.yColumn # <<>>
      THEN scatterSeries(dataRows, request.xColumn, request.yColumn)
      ELSE Built(<<>>)

\* lines 28-102: chartData
chartData(dataRows, request) ==
  LET aggregateFunction ==
        IF request.aggregateFunction = <<>> THEN "sum" ELSE request.aggregateFunction[1]
  IN  IF request.chartType = "pie" THEN countSeries(dataRows, request.xColumn)
      ELSE IF request.chartType = "bar" /\ request.yColumn # <<>>
      THEN barSeries(dataRows, request.xColumn, request.yColumn, aggregateFunction)
      ELSE IF request.chartType = "line" /\ request.yColumn # <<>>
      THEN lineSeries(dataRows, request.xColumn, request.yColumn)
      ELSE IF request.chartType = "scatter" /\ request.yColumn # <<>>
      THEN scatterSeries(dataRows, request.xColumn, request.yColumn)
      ELSE countSeries(dataRows, request.xColumn)

\* POST: the response; the handler leaves the Map as it is, and its catch
\* answers what was thrown with status 500
getChartData(routeMap, request) ==
  LET answer(series) ==
        IF series.thrown # <<>>
        THEN [status |-> 500, error |-> series.thrown[1]]
        ELSE [status    |-> 200,
              success   |-> TRUE,
              data      |-> series.data,
              chartType |-> request.chartType,
              xColumn   |-> request.xColumn,
              yColumn   |-> request.yColumn]
  IN  IF request.fileId = NoFileId \/ request.chartType = "" \/ request.xColumn = <<>>
      THEN [status |-> 400, error |-> "Missing required parameters"]
      ELSE IF routeMap[request.fileId] = <<>>
      THEN [status |-> 404, error |-> "File not found"]
      ELSE answer(chartData(dataRowsOf(routeMap[request.fileId][1]), request))

(***************************************************************************)
(* Specification of the pipeline as a function of the upload.              *)
(* Uploads are CSV texts of up to MaxLines lines of LinePool, and          *)
(* workbooks of up to MaxSheetRows rows of SheetRowPool.                   *)
(***************************************************************************)
VARIABLES
  upload,     \* the upload handed to AdvancedDataProcessor.processFile
  parsed,     \* <<>> or <<the ParsedData that processFile returned>>
  memory,     \* FileStorage: the Map, file id -> <<>> or <<entry>>
  files,      \* FileCache: the cache directory, file id -> file
  routeMap,   \* the Map that process-file/route.ts exports
  pending,    \* POST requests received whose body is still awaited
  request,    \* the request handled last
  response,   \* the response to it
  processed,  \* file ids a POST answered with success since the process started
  lastSet,    \* file id -> <<>> or <<the data and disk outcome of the last fileStorage.set>>
  table       \* the columns and rows handed to DataAnalyzer.analyzeData

vars == <<upload, parsed, memory, files, routeMap, pending, request, response,
          processed, lastSet, table>>

\* the variables outside the processFile pipeline
serverVars == <<memory, files, routeMap, pending, request, response, processed, lastSet, table>>

MaxLines == 3

MaxSheetRows == 2

LinePool ==
  { <<"N", "o", "m", "e", ",", "V", "a", "l", "o", "r", ",", "T", "o", "t", "a", "l">>,
    <<"F", "o", "o", "d", ",", "R", "$", " ", "1", "0", ",", "R", "$", " ", "2", "0">>,
    <<"R", "e", "n", "t", ",", "\"", "R", "$", " ", "1", ".", "2", "3", "4", ",", "5", "6", "\"", ",", "5">>,
    <<"D", "e", "s", "p", "e", "s", "a", "s", ",", "P", "l", "a", "n", "e", "j", "a", "d", "o", ",", "R", "e", "a", "l">>,
    <<"T", "o", "t", "a", "i", "s", ",", "R", "$", " ", "3", "0", ",", "R", "$", " ", "4", "0">>,
    <<" ", ",", " ", ",">>,
    <<",", ",", ",", "z", "z">>,
    <<"x", ",", "1", ",", "2", ",", "3", ",", "4">>,
    <<" ", " ">> }

\* rows as a spreadsheet reader hands them over: cells are not trimmed
SheetRowPool ==
  { << <<" ", "D", "a", "t", "a", " ">>, <<"V", "a", "l", "o", "r">>, <<"N", "o", "m", "e">> >>,
    << <<" ", "F", "o", "o", "d">>, <<" ", "R", "$", " ", "1", "0", " ">>, <<>> >>,
    << <<" ">>, <<>>, <<>> >>,
    << <<>>, <<>>, <<>>, <<"7", "%">> >> }

csvName == <<"d", "a", "t", "a", ".", "c", "s", "v">>
xlsxName == <<"b", "o", "o", "k", ".", "x", "l", "s", "x">>
csvMime == <<"t", "e", "x", "t", "/", "c", "s", "v">>
xlsxMime == <<"a", "p", "p", "l", "i", "c", "a", "t", "i", "o", "n", "/", "v", "n", "d", ".", "o", "p", "e", "n", "x", "m", "l", "f", "o", "r", "m", "a", "t", "s", "-", "o", "f", "f", "i", "c", "e", "d", "o", "c", "u", "m", "e", "n", "t", ".", "s", "p", "r", "e", "a", "d", "s", "h", "e", "e", "t", "m", "l", ".", "s", "h", "e", "e", "t">>

SeqsUpTo(S, n) == UNION {[1..k -> S] : k \in 0..n}

RECURSIVE joinLines(_)
joinLines(lines) ==
  IF lines = <<>> THEN <<>>
  ELSE IF Len(lines) = 1 THEN lines[1]
  ELSE joinLines(SubSeq(lines, 1, Len(lines) \div 2)) \o <<"\n">>
       \o joinLines(SubSeq(lines, Len(lines) \div 2 + 1, Len(lines)))

Contents == {joinLines(ls) : ls \in SeqsUpTo(LinePool, MaxLines)}

NoWorkbook == [throws |-> TRUE, sheets |-> <<>>]

Workbooks ==
  {NoWorkbook}
  \cup {[throws |-> FALSE, sheets |-> <<t>>] : t \in SeqsUpTo(SheetRowPool, MaxSheetRows)}
  \cup {[throws |-> FALSE, sheets |-> << <<>>, t >>] : t \in SeqsUpTo(SheetRowPool, MaxSheetRows)}

Uploads ==
  {[content |-> c, filename |-> csvName, mimeType |-> csvMime, workbook |-> NoWorkbook] :
      c \in Contents}
  \cup
  {[content |-> <<>>, filename |-> xlsxName, mimeType |-> m, workbook |-> w] :
      m \in {csvMime, xlsxMime}, w \in Workbooks \ {NoWorkbook}}
  \cup
  {[content |-> c, filename |-> csvName, mimeType |-> xlsxMime, workbook |-> NoWorkbook] :
      c \in Contents}

procVars == <<upload, parsed>>

InitProc ==
  /\ upload \in Uploads
  /\ parsed = <<>>
  /\ memory = <<>> /\ files = <<>> /\ routeMap = <<>> /\ pending = {}
  /\ request = <<>> /\ response = <<>> /\ processed = {} /\ lastSet = <<>>
  /\ table = <<>>

\* AdvancedDataProcessor.processFile applied to the upload
RunProcessFile ==
  /\ parsed = <<>>
  /\ parsed' = << processFile(upload.content, upload.filename, upload.mimeType, upload.workbook) >>
  /\ UNCHANGED upload
  /\ UNCHANGED serverVars

NextProc == RunProcessFile

SpecProc == InitProc /\ [][NextProc]_vars

(***************************************************************************)
(* Claims on the pipeline (SpecProc)                                       *)
(***************************************************************************)
\* the raw rows that reached analyzeComplexStructure for this upload
rawRowsOf(u) ==
  IF isExcel(u.filename, u.mimeType) /\ ~u.workbook.throws
  THEN u.workbook.sheets[bestSheet(u.workbook.sheets)]
  ELSE csvRawRows(u.content)

\* C1: no row of the ParsedData.rows that processFile returns consists
\* entirely of empty strings: every returned row holds a non-empty cell.
C1_NoEmptyRow ==
  parsed # <<>> =>
    \A i \in 1..Len(parsed[1].rows) :
       \E j \in 1..Len(parsed[1].rows[i]) : parsed[1].rows[i][j] # <<>>

\* C1 witness: processFile returned rows, and a raw data row that holds a
\* non-empty cell was dropped because it is empty after cleaning.
C1_Witness ==
  /\ parsed # <<>>
  /\ Len(parsed[1].rows) >= 1
  /\ parsed[1].metadata.fileType \in {"simple_table", "expense_report"}
  /\ \E i \in (parsed[1].metadata.dataStartRow + 1)..Len(rawRowsOf(upload)) :
        /\ rowHasContent(rawRowsOf(upload)[i])
        /\ cleanDataRow(rawRowsOf(upload)[i], Len(parsed[1].headers)) = <<>>

\* C2 (as claimed): every row of ParsedData.rows has exactly headers.length
\* cells, whichever cleaning path produced it.
C2_RowsHaveHeaderWidth ==
  parsed # <<>> =>
    \A i \in 1..Len(parsed[1].rows) : Len(parsed[1].rows[i]) = Len(parsed[1].headers)

(***************************************************************************)
(* Specification of the server: the two upload routes, the analyze route   *)
(* and the chart route, over FileStorage, FileCache and the Map of         *)
(* process-file/route.ts.  A handler runs without interruption from the    *)
(* end of its only await (request.json()) to its return; Restart is the    *)
(* end of the process, which empties both Maps and keeps the cache         *)
(* directory.                                                              *)
(***************************************************************************)
MaxFiles == 1

FileIds == 1..MaxFiles

TableA == <<"N", "o", "m", "e", ",", "T", "o", "t", "a", "l", ",", "C", "l", "i", "e", "n", "t", "e", "\n", "N", ",", "1", "0", ",", "a", "\n", "N", ",", "2", "0", ",", "b", "\n", "S", ",", "5", ",", "c">>

BlankLines == <<" ", "\n", " ", " ", "\n">>

ServerContents == {<<>>, BlankLines, TableA}

RequestBody(fileId, content) ==
  [fileId |-> fileId, filename |-> csvName, content |-> content, mimeType |-> csvMime,
   size |-> Len(content), workbook |-> NoWorkbook]

Bodies == {RequestBody(f, c) : f \in FileIds, c \in ServerContents}

colNome == <<"N", "o", "m", "e">>
colTotal == <<"T", "o", "t", "a", "l">>

ChartRequest(fileId, chartType, yColumn) ==
  [fileId |-> fileId, chartType |-> chartType, xColumn |-> colNome, yColumn |-> yColumn,
   aggregateFunction |-> <<>>]

ChartRequests ==
  {ChartRequest(f, "pie", <<>>) : f \in FileIds \cup {NoFileId}}
  \cup {ChartRequest(f, "bar", colTotal) : f \in FileIds}

NoEntries == [f \in FileIds |-> <<>>]
NoFiles == [f \in FileIds |-> NoFile]

storeVars == <<memory, files, routeMap>>

Init ==
  /\ memory = NoEntries
  /\ files = NoFiles
  /\ routeMap = NoEntries
  /\ request = [kind |-> "start", fileId |-> NoFileId, args |-> <<>>]
  /\ response = [status |-> 0]
  /\ processed = {}
  /\ pending = {} /\ lastSet = <<>> /\ table = <<>>
  /\ upload = <<>> /\ parsed = <<>>

\* POST of the route of src/unnamed/part_000, from the end of its await
UploadAdvanced(body, disk) ==
  LET stored(result, set) ==
        /\ memory' = (IF result.stored = <<>> THEN memory ELSE set.memory)
        /\ files' = (IF result.stored = <<>> THEN files ELSE set.files)
        /\ response' = result.response
        /\ processed' = (IF result.response.status = 200
                         THEN processed \cup {body.fileId} ELSE processed)
      handled(result) ==
        stored(result,
               IF result.stored = <<>> THEN <<>>
               ELSE FileStorageSet(memory, files, body.fileId, result.stored[1], disk))
  IN  /\ handled(advancedPost(body))
      /\ request' = [kind |-> "process-file-advanced", fileId |-> body.fileId, args |-> body]

ProcessFileAdvanced(body, disk) ==
  /\ UploadAdvanced(body, disk)
  /\ UNCHANGED <<routeMap, pending, lastSet, table, upload, parsed>>

\* POST of src/app/api/process-file/route.ts
ProcessFileSimple(body) ==
  LET handled(result) ==
        /\ routeMap' = (IF result.stored = <<>> THEN routeMap
                        ELSE [routeMap EXCEPT ![body.fileId] = result.stored])
        /\ response' = result.response
        /\ processed' = (IF result.response.status = 200
                         THEN processed \cup {body.fileId} ELSE processed)
  IN  /\ handled(simplePost(body))
      /\ request' = [kind |-> "process-file", fileId |-> body.fileId, args |-> body]
      /\ UNCHANGED <<memory, files, pending, lastSet, table, upload, parsed>>

\* GET of src/app/api/analyze-data/route.ts
AnalyzeData(fileId) ==
  LET handled(result) ==
        /\ memory' = result.memory
        /\ response' = result.response
  IN  /\ handled(analyzeGet(memory, files, fileId))
      /\ request' = [kind |-> "analyze-data", fileId |-> fileId, args |-> <<>>]
      /\ UNCHANGED <<files, routeMap, processed, pending, lastSet, table, upload, parsed>>

\* POST of src/app/api/get-chart-data/route.ts
GetChartData(chartRequest) ==
  /\ response' = getChartData(routeMap, chartRequest)
  /\ request' = [kind |-> "get-chart-data", fileId |-> chartRequest.fileId, args |-> chartRequest]
  /\ UNCHANGED <<memory, files, routeMap, processed, pending, lastSet, table, upload, parsed>>

\* the process ends and a new one starts
EndProcess ==
  /\ memory' = NoEntries
  /\ routeMap' = NoEntries
  /\ processed' = {}
  /\ request' = [kind |-> "start", fileId |-> NoFileId, args |-> <<>>]
  /\ response' = [status |-> 0]

Restart ==
  /\ EndProcess
  /\ UNCHANGED <<files, pending, lastSet, table, upload, parsed>>

Next ==
  \/ \E body \in Bodies, disk \in DiskOutcomes : ProcessFileAdvanced(body, disk)
  \/ \E body \in Bodies : ProcessFileSimple(body)
  \/ \E fileId \in FileIds \cup {NoFileId} : AnalyzeData(fileId)
  \/ \E chartRequest \in ChartRequests : GetChartData(chartRequest)
  \/ Restart

Spec == Init /\ [][Next]_vars

(***************************************************************************)
(* Claims on the server (Spec)                                             *)
(***************************************************************************)
\* the request handled last is an upload
isUpload(req) == req.kind \in {"process-file-advanced", "process-file"}

\* C3 (as claimed): an upload whose content yields zero raw rows is answered
\* with an error and leaves the stores as they were, so that no entry for
\* its fileId is put into a store.
C3_EmptyUploadStoresNothing ==
  [][ (isUpload(request') /\ csvRawRows(request'.args.content) = <<>>)
        => /\ response'.status # 200
           /\ UNCHANGED storeVars ]_vars

\* C4 (as claimed): after an upload of fileId was answered with success, and
\* with no restart since, neither analyze(fileId) nor getChartData(fileId, ...)
\* answers that the file was not found.
C4_ProcessedFileIsFound ==
  \A f \in processed :
     /\ analyzeGet(memory, files, f).response.status # 404
     /\ getChartData(routeMap, ChartRequest(f, "pie", <<>>)).status # 404

\* what fileStorage.get would return for each file id
storedEntries(mem, dir) == [f \in FileIds |-> FileStorageGet(mem, dir, f).data]

\* C7: with no upload in between, a second analyze(fileId), or a second
\* getChartData with the same arguments, returns a result equal to the
\* first, and neither call changes the entry that a store returns for any
\* fileId.
C7_ReadsRepeatAndKeepEntries ==
  [][ /\ request'.kind = "analyze-data"
         => /\ analyzeGet(memory', files', request'.fileId).response = response'
            /\ storedEntries(memory', files') = storedEntries(memory, files)
            /\ routeMap' = routeMap
      /\ request'.kind = "get-chart-data"
         => /\ getChartData(routeMap', request'.args) = response'
            /\ storedEntries(memory', files') = storedEntries(memory, files)
            /\ routeMap' = routeMap ]_vars

\* C7 witness: analyze found, in a process that has handled no upload, an
\* entry that it had to restore from the cache directory.
C7_Witness ==
  /\ request.kind = "analyze-data"
  /\ response.status = 200
  /\ processed = {}
  /\ memory[request.fileId] # <<>>

(***************************************************************************)
(* Specification of FileStorage under concurrent uploads.  A POST of       *)
(* src/unnamed/part_000 awaits request.json() once; uploads that were      *)
(* received complete in any order, each running from the end of its await  *)
(* to its return without interruption, and readers run in between.         *)
(***************************************************************************)
MaxPending == 2

TableB == <<"N", "o", "m", "e", ",", "T", "o", "t", "a", "l", "\n", "S", ",", "5">>

StoreBodies == {RequestBody(f, c) : f \in FileIds, c \in {<<>>, TableA, TableB}}

InitStore ==
  /\ memory = NoEntries
  /\ files = NoFiles
  /\ routeMap = NoEntries
  /\ pending = {}
  /\ lastSet = NoEntries
  /\ request = [kind |-> "start", fileId |-> NoFileId, args |-> <<>>]
  /\ response = [status |-> 0]
  /\ processed = {}
  /\ table = <<>> /\ upload = <<>> /\ parsed = <<>>

\* a POST arrives and awaits its body
ReceiveUpload(body) ==
  /\ Cardinality(pending) < MaxPending
  /\ body \notin pending
  /\ pending' = pending \cup {body}
  /\ UNCHANGED <<memory, files, routeMap, request, response, processed, lastSet, table,
                 upload, parsed>>

\* the rest of the handler of a POST whose body has arrived
CompleteUpload(body, disk) ==
  /\ body \in pending
  /\ UploadAdvanced(body, disk)
  /\ pending' = pending \ {body}
  /\ lastSet' = (IF advancedPost(body).stored = <<>> THEN lastSet
                 ELSE [lastSet EXCEPT ![body.fileId] =
                         << [data |-> advancedPost(body).stored[1], disk |-> disk] >>])
  /\ UNCHANGED <<routeMap, table, upload, parsed>>

\* the process ends with the requests it was handling
RestartStore ==
  /\ EndProcess
  /\ pending' = {}
  /\ lastSet' = NoEntries
  /\ UNCHANGED <<files, table, upload, parsed>>

NextStore ==
  \/ \E body \in StoreBodies : ReceiveUpload(body)
  \/ \E body \in StoreBodies, disk \in DiskOutcomes : CompleteUpload(body, disk)
  \/ \E fileId \in FileIds : AnalyzeData(fileId)
  \/ RestartStore

SpecStore == InitStore /\ [][NextStore]_vars

(***************************************************************************)
(* Claims on FileStorage (SpecStore)                                       *)
(***************************************************************************)
\* C5: when the cache write of fileStorage.set(fileId, data) throws, set still
\* returns normally (the upload is answered with success), and get(fileId)
\* returns that data for as long as the process lives and no later set for
\* fileId is made.
C5_SetSurvivesCacheFailure ==
  /\ \A f \in FileIds :
        (lastSet[f] # <<>> /\ lastSet[f][1].disk # "written")
          => FileStorageGet(memory, files, f).data = <<lastSet[f][1].data>>
  /\ (request.kind = "process-file-advanced" /\ lastSet[request.fileId] # <<>>
        /\ lastSet[request.fileId][1].disk # "written")
          => (response.status = 200 /\ response.success)

\* C5 witness: a reader was answered from an entry whose cache write threw
\* and left no file.
C5_Witness ==
  /\ request.kind = "analyze-data"
  /\ response.status = 200
  /\ lastSet[request.fileId] # <<>>
  /\ lastSet[request.fileId][1].disk = "failed"
  /\ ~files[request.fileId].exists

\* the entries that one upload request for the file id writes
completeEntries(f) ==
  {advancedPost(b).stored[1] : b \in {c \in StoreBodies : c.fileId = f}}

\* C6: whatever the interleaving of uploads for one fileId and readers,
\* get(fileId) returns nothing or one complete entry, all of whose parts one
\* upload request wrote; once no upload is in flight, it returns the entry of
\* the last set.
C6_WholeEntryLastWriterWins ==
  \A f \in FileIds :
     LET holds(got) ==
           /\ got = <<>> \/ got[1] \in completeEntries(f)
           /\ (pending = {} /\ lastSet[f] # <<>>) => got = <<lastSet[f][1].data>>
     IN  holds(FileStorageGet(memory, files, f).data)

\* C6 witness: two uploads for one fileId have written different entries, the
\* earlier one is in the cache directory and the later one, whose cache write
\* threw, is in the Map; no upload is in flight.
C6_Witness ==
  \E f \in FileIds :
     /\ pending = {}
     /\ lastSet[f] # <<>>
     /\ memory[f] = <<lastSet[f][1].data>>
     /\ files[f].exists
     /\ files[f].text # <<>>
     /\ files[f].text # memory[f]

(***************************************************************************)
(* Specification of DataAnalyzer.analyzeData as a function of the table.   *)
(* A table has string columns, each with a number of distinct values,      *)
(* then number columns, then date columns; the DataColumn records are the  *)
(* ones the analyze-data handler builds.                                   *)
(***************************************************************************)
MaxStringColumns == 2
MaxNumberColumns == 2
MaxDateColumns == 1

RowCounts == {4, 44}

\* distinct values asked of a string column (0: every cell is empty); a
\* column has no more distinct values than rows
UniqueCounts == {0, 1, 3, 11, 21, 44}

\* the cell of row i (from 1) of a string column with u distinct values
stringCell(u, i) == IF u = 0 THEN <<>> ELSE <<"v">> \o NatToStr((i - 1) % u)

numberCell(k, i) == NatToStr(k * i)

\* a day of January 2024 in the form YYYY-MM-DD
dateCell(i) ==
  LET day(d) == IF d < 10 THEN <<"0">> \o NatToStr(d) ELSE NatToStr(d)
  IN  <<"2", "0", "2", "4", "-", "0", "1", "-">> \o day(((i - 1) % 28) + 1)

columnName(letter, k) == <<letter>> \o NatToStr(k)

\* the table with the string columns of the given distinct counts, numbers
\* number columns, dates date columns and n rows
Table(uniques, numbers, dates, n) ==
  LET names == [k \in 1..Len(uniques) |-> columnName("s", k)]
               \o [k \in 1..numbers |-> columnName("n", k)]
               \o [k \in 1..dates |-> columnName("d", k)]
      type(c) == IF c <= Len(uniques) THEN "string"
                 ELSE IF c <= Len(uniques) + numbers THEN "number" ELSE "date"
      cell(c, i) == IF c <= Len(uniques) THEN stringCell(Min(uniques[c], n), i)
                    ELSE IF c <= Len(uniques) + numbers THEN numberCell(c - Len(uniques), i)
                    ELSE dateCell(i)
  IN  [columns |-> [c \in 1..Len(names) |->
                      [name         |-> names[c],
                       type         |-> type(c),
                       sampleValues |-> [i \in 1..Min(5, n) |-> cell(c, i)]]],
       rows    |-> [i \in 1..n |->
                      [name \in Range(names) |->
                         cell(CHOOSE c \in 1..Len(names) : names[c] = name, i)]]]

Tables ==
  {Table(uniques, numbers, dates, n) :
     uniques \in SeqsUpTo(UniqueCounts, MaxStringColumns),
     numbers \in 0..MaxNumberColumns,
     dates \in 0..MaxDateColumns,
     n \in RowCounts}

InitSuggest ==
  /\ table \in Tables
  /\ response = <<>>
  /\ memory = <<>> /\ files = <<>> /\ routeMap = <<>> /\ pending = {}
  /\ request = <<>> /\ processed = {} /\ lastSet = <<>>
  /\ upload = <<>> /\ parsed = <<>>

\* DataAnalyzer.analyzeData applied to the table
RunAnalyzeData ==
  /\ response = <<>>
  /\ response' = << analyzeData(table.columns, table.rows) >>
  /\ UNCHANGED <<table, memory, files, routeMap, pending, request, processed, lastSet,
                 upload, parsed>>

NextSuggest == RunAnalyzeData

SpecSuggest == InitSuggest /\ [][NextSuggest]_vars

(***************************************************************************)
(* Claims on DataAnalyzer.analyzeData (SpecSuggest)                        *)
(***************************************************************************)
\* the suggestions in the order generateChartSuggestions pushed them
generatedOf(analysis) == generatedSuggestions(analysis.columns, table.rows)

\* the place of a suggestion among the generated ones
placeIn(generated, suggestion) ==
  CHOOSE i \in 1..Len(generated) : generated[i] = suggestion

oneCategoryOneNumber(analysis) ==
  /\ Len(analysis.columns) = 2
  /\ analysis.columns[1].type = "string"
  /\ analysis.columns[2].type = "number"
  /\ analysis.columns[1].uniqueValues * 2 < analysis.rowCount

\* C9: for a table of one string column with u distinct values, u less
\* than half the number of rows, one number column and no date column, the
\* suggestions are a bar (x the string column, y the number column,
\* confidence 0.8) when u <= 20, then a pie (x the string column, no y,
\* confidence 0.7) when 2 <= u <= 10, and nothing else.
C9_OneBarOnePie ==
  (response # <<>> /\ oneCategoryOneNumber(response[1])) =>
    LET essentials(s) == <<s.type, s.xColumn, s.yColumn, s.confidence>>
        holds(u, category, number, r) ==
          [k \in 1..Len(r) |-> essentials(r[k])]
            = (IF u <= 20 THEN << <<"bar", category, <<number>>, Rat(8, 10)>> >> ELSE <<>>)
              \o (IF 2 <= u /\ u <= 10 THEN << <<"pie", category, <<>>, Rat(7, 10)>> >> ELSE <<>>)
    IN  holds(response[1].columns[1].uniqueValues, response[1].columns[1].name,
              response[1].columns[2].name, response[1].suggestedCharts)

\* C9 witness: such a table, of 3 distinct values, got its bar and its pie.
C9_Witness ==
  /\ response # <<>>
  /\ oneCategoryOneNumber(response[1])
  /\ response[1].columns[1].uniqueValues = 3
  /\ Len(response[1].suggestedCharts) = 2

(***************************************************************************)
(* Specification of getChartData as a function of the stored rows and the  *)
(* request.  The rows are the ones POST of process-file/route.ts stored    *)
(* for a CSV text of the header Nome,Total and some lines.                 *)
(***************************************************************************)
MaxChartRows == 3

ChartLinePool ==
  { <<"N", ",", "1", "0">>,
    <<"N", ",", "2", "0">>,
    <<"S", ",", "5">>,
    <<"S", ",", "a", "b", "c">>,
    <<",", "7">>,
    <<"N", ",">>,
    <<"7", ",", "1", ".", "5">>,
    <<"c", "o", "n", "s", "t", "r", "u", "c", "t", "o", "r", ",", "3">> }

ChartContents ==
  {joinLines(<< <<"N", "o", "m", "e", ",", "T", "o", "t", "a", "l">> >> \o ls) :
     ls \in SeqsUpTo(ChartLinePool, MaxChartRows)}

AggregateFunctions == {<<>>, <<"sum">>, <<"avg">>, <<"count">>, <<"max">>}

BarRequests ==
  {[ChartRequest(f, "bar", colTotal) EXCEPT !.aggregateFunction = a] :
     f \in FileIds, a \in AggregateFunctions}
  \cup {ChartRequest(f, "bar", <<>>) : f \in FileIds}

InitChart ==
  /\ \E content \in ChartContents :
        routeMap = [f \in FileIds |-> simplePost(RequestBody(f, content)).stored]
  /\ memory = NoEntries
  /\ files = NoFiles
  /\ request = [kind |-> "start", fileId |-> NoFileId, args |-> <<>>]
  /\ response = [status |-> 0]
  /\ processed = {}
  /\ pending = {} /\ lastSet = <<>> /\ table = <<>>
  /\ upload = <<>> /\ parsed = <<>>

NextChart == \E chartRequest \in BarRequests : GetChartData(chartRequest)

SpecChart == InitChart /\ [][NextChart]_vars

(***************************************************************************)
(* Claims on getChartData (SpecChart)                                      *)
(***************************************************************************)
\* a cell read as a number, one that is not a number counting as 0
numberOrZero(cell) == IF isNaN(parseFloat(cell)) THEN Rat(0, 1) ELSE parseFloat(cell)

RECURSIVE totalOver(_, _, _)
\* the total of yColumn over the rows of the given indices
totalOver(rows, indices, yColumn) ==
  IF indices = {} THEN Rat(0, 1)
  ELSE LET i == CHOOSE k \in indices : TRUE
       IN  RatAdd(numberOrZero(Lookup(rows[i], yColumn)),
                  totalOver(rows, indices \ {i}, yColumn))

\* C10 (as claimed): for chart type bar with a yColumn, getChartData returns one point
\* per distinct non-empty value of xColumn; the value of the point is taken
\* over the rows of that group, yColumn read as a number (0 when it is not
\* one): their total for sum (and when no function is given), their mean
\* for avg, their number for count.
C10_BarAggregatesGroups ==
  (request.kind = "get-chart-data" /\ request.args.chartType = "bar"
     /\ request.args.yColumn # <<>> /\ routeMap[request.fileId] # <<>>) =>
    LET rows == dataRowsOf(routeMap[request.fileId][1])
        x == request.args.xColumn
        y == request.args.yColumn
        f == request.args.aggregateFunction
        keys == {Lookup(rows[i], x) : i \in 1..Len(rows)} \ {<<>>}
        group(key) == {i \in 1..Len(rows) : Lookup(rows[i], x) = key}
        agrees(key, value) ==
          /\ f \in {<<>>, <<"sum">>} => value = totalOver(rows, group(key), y)
          /\ f = <<"avg">> =>
                value = RatDivInt(totalOver(rows, group(key), y), Cardinality(group(key)))
          /\ f = <<"count">> => value = Rat(Cardinality(group(key)), 1)
    IN  /\ response.status = 200
        /\ Len(response.data) = Cardinality(keys)
        /\ \A key \in keys :
              \E k \in 1..Len(response.data) :
                 /\ response.data[k][kName] = key
                 /\ agrees(key, response.data[k][kValue])

(***************************************************************************)
(* Specification of getChartData over every chart type.  The stored rows   *)
(* are the ones POST of process-file/route.ts stored for a CSV text of the *)
(* header Nome,Total and either a few lines, with names that look like     *)
(* numbers among them, or LongRows lines r1,1 r2,2 ... of distinct names.  *)
(***************************************************************************)
MaxSeriesRows == 3

LongRows == 101

SeriesLinePool ==
  { <<"b", ",", "1">>,
    <<"2", ",", "5">>,
    <<"1", "0", ",", "7">>,
    <<"b", ",", "x">>,
    <<",", "4">> }

headerNomeTotal == <<"N", "o", "m", "e", ",", "T", "o", "t", "a", "l">>

LongContent ==
  joinLines(<<headerNomeTotal>>
            \o [i \in 1..LongRows |-> <<"r">> \o NatToStr(i) \o <<",">> \o NatToStr(i)])

SeriesContents ==
  {joinLines(<<headerNomeTotal>> \o ls) : ls \in SeqsUpTo(SeriesLinePool, MaxSeriesRows)}
  \cup {LongContent}

ChartTypes == {"pie", "bar", "line", "scatter", "area"}

SeriesRequests ==
  {ChartRequest(f, t, y) : f \in FileIds, t \in ChartTypes, y \in {<<>>, colTotal}}

InitSeries ==
  /\ \E content \in SeriesContents :
        routeMap = [f \in FileIds |-> simplePost(RequestBody(f, content)).stored]
  /\ memory = NoEntries
  /\ files = NoFiles
  /\ request = [kind |-> "start", fileId |-> NoFileId, args |-> <<>>]
  /\ response = [status |-> 0]
  /\ processed = {}
  /\ pending = {} /\ lastSet = <<>> /\ table = <<>>
  /\ upload = <<>> /\ parsed = <<>>

NextSeries == \E chartRequest \in SeriesRequests : GetChartData(chartRequest)

SpecSeries == InitSeries /\ [][NextSeries]_vars

(***************************************************************************)
(* Claims on the series of getChartData (SpecSeries)                       *)
(***************************************************************************)
\* the largest number of points that the old handler lets through
MaxPoints == 100

\* C11 (as claimed): for every chart type and every stored table, the series
\* that getChartData returns has at most 100 points.
C11_AtMostHundredPoints ==
  (request.kind = "get-chart-data" /\ response.status = 200) =>
    Len(response.data) <= MaxPoints

\* the request is answered by counting: chart type pie, and every request
\* that no other branch of the handler takes
isCountRequest(args) ==
  \/ args.chartType = "pie"
  \/ ~(args.chartType \in {"bar", "line", "scatter"} /\ args.yColumn # <<>>)

\* the index of the first row whose xColumn cell is the name
firstRowOf(rows, xColumn, name) ==
  CHOOSE i \in 1..Len(rows) :
    /\ Lookup(rows[i], xColumn) = name
    /\ \A j \in 1..(i - 1) : Lookup(rows[j], xColumn) # name

\* C12 (as claimed): for chart type pie and the count fallback, getChartData
\* returns one {name, value} point per distinct non-null value of xColumn,
\* value being the number of rows that hold it, and the points are in the
\* order in which the values are first seen in the rows.
C12_CountsInFirstSeenOrder ==
  (request.kind = "get-chart-data" /\ isCountRequest(request.args)
     /\ routeMap[request.fileId] # <<>>) =>
    LET holds(rows, x, keys) ==
          /\ response.status = 200
          /\ Len(response.data) = Cardinality(keys)
          /\ \A k \in 1..Len(response.data) :
                /\ response.data[k][kName] \in keys
                /\ response.data[k][kValue] =
                     Rat(Cardinality({i \in 1..Len(rows) :
                                        Lookup(rows[i], x) = response.data[k][kName]}), 1)
          /\ \A k, h \in 1..Len(response.data) :
                k < h => firstRowOf(rows, x, response.data[k][kName])
                           < firstRowOf(rows, x, response.data[h][kName])
        over(rows, x) == holds(rows, x, {Lookup(rows[i], x) : i \in 1..Len(rows)} \ {<<>>})
    IN  over(dataRowsOf(routeMap[request.fileId][1]), request.args.xColumn)

(***************************************************************************)
(* Specification of detectColumnType, of part_000 and of route.ts, as a    *)
(* function of the values of a column and of the strings that the date     *)
(* fallback of the engine accepts.  Only strings that hold a digit and are *)
(* not ISO dates are left to the engine: the fallback needs a day number.  *)
(***************************************************************************)
MaxColumnValues == 2

ColumnValuePool ==
  { <<"1">>, <<"2">>, <<"3">>, <<"0">>, <<"a">>, <<"b">>, <<" ">>,
    <<"t", "r", "u", "e">>, <<"f", "a", "l", "s", "e">>, <<"s", "i", "m">>,
    <<"2", "0", "2", "4", "-", "0", "1", "-", "0", "1">>,
    <<"2", "0", "2", "4", "-", "0", "2", "-", "0", "1">>,
    <<"R", "$", " ", "5">> }

ExampleColumns ==
  { << <<"1">>, <<"2">>, <<"3">> >>,
    << <<"a">>, <<"b">>, <<"1">> >> }

InitTypes ==
  /\ \E values \in SeqsUpTo(ColumnValuePool, MaxColumnValues) \cup ExampleColumns :
       \E engineDates \in SUBSET {v \in Range(values) : hasDigit(v) /\ ~isDateString(v)} :
          table = [values |-> values, engineDates |-> engineDates]
  /\ response = <<>>
  /\ memory = <<>> /\ files = <<>> /\ routeMap = <<>> /\ request = <<>>
  /\ processed = {} /\ pending = {} /\ lastSet = <<>>
  /\ upload = <<>> /\ parsed = <<>>

\* the column type that each of the two handlers stores for the column
DetectColumnTypes ==
  /\ response = <<>>
  /\ response' = << [advanced |-> detectColumnTypeOn(table.values, table.engineDates),
                     simple   |-> detectColumnTypeSimpleOn(table.values, table.engineDates)] >>
  /\ UNCHANGED <<table, memory, files, routeMap, request, processed, pending, lastSet,
                 upload, parsed>>

NextTypes == DetectColumnTypes

SpecTypes == InitTypes /\ [][NextTypes]_vars

(***************************************************************************)
(* Claims on detectColumnType (SpecTypes)                                  *)
(***************************************************************************)
\* the values of the column that are not blank
filled(values) == {values[i] : i \in {j \in 1..Len(values) : trim(values[j]) # <<>>}}

\* the checks of the two handlers on one value
numberLike(v) == ~NumberIsNaN(v)
numberLikeAdvanced(v) == ~NumberIsNaN(replaceAll(v, {"R", "$", ","} \cup WhiteSpace, <<".">>))
booleanLike(v) ==
  toLowerCase(v) \in {<<"t", "r", "u", "e">>, <<"f", "a", "l", "s", "e">>, <<"1">>, <<"0">>}

\* first satisfied wins over a set vs of non-blank values none of which is
\* a currency amount: number, then date, then boolean, then string
firstSatisfied(vs, isNumber(_), isDate(_), isBoolean(_)) ==
  IF vs = {} THEN "string"
  ELSE IF \A v \in vs : isNumber(v) THEN "number"
  ELSE IF \A v \in vs : isDate(v) THEN "date"
  ELSE IF \A v \in vs : isBoolean(v) THEN "boolean"
  ELSE "string"

\* C13: detectColumnType applies its checks in the order empty, number,
\* date, boolean, string and the first satisfied one decides: 1, 2, 3 is
\* number, two ISO dates are date, true, false is boolean, and a column
\* that passes none of the checks, such as a, b, 1, is string.
C13_FirstSatisfiedCheckWins ==
  response # <<>> =>
    LET ordered(vs, dates) ==
          /\ (\A v \in vs : ~currencyRegex(trim(v))) =>
                response[1].advanced =
                  firstSatisfied(vs, numberLikeAdvanced,
                                 LAMBDA v : dateParses(v, dates) /\ hasDigit(v),
                                 LAMBDA v : booleanRegex(trim(v)))
          /\ response[1].simple =
               firstSatisfied(vs, numberLike, LAMBDA v : dateParses(v, dates), booleanLike)
        both(type) == response[1].advanced = type /\ response[1].simple = type
    IN  /\ ordered(filled(table.values), table.engineDates)
        /\ table.values = << <<"1">>, <<"2">>, <<"3">> >> => both("number")
        /\ table.values = << <<"2", "0", "2", "4", "-", "0", "1", "-", "0", "1">>,
                             <<"2", "0", "2", "4", "-", "0", "2", "-", "0", "1">> >>
             => both("date")
        /\ table.values = << <<"t", "r", "u", "e">>, <<"f", "a", "l", "s", "e">> >>
             => both("boolean")
        /\ table.values = << <<"a">>, <<"b">>, <<"1">> >> => both("string")

\* a column of 1 and 0, whose values pass the check for number and the
\* check for boolean, has been typed by both handlers
C13_Witness ==
  /\ response # <<>>
  /\ table.values = << <<"1">>, <<"0">> >>
  /\ response[1].advanced = "number"
  /\ response[1].simple = "number"

(***************************************************************************)
(* Specification of a second extraction: processFile runs on a CSV upload, *)
(* and the analysis then runs again on the table whose row 0 is the        *)
(* returned header row and whose other rows are the returned rows.         *)
(***************************************************************************)
CsvUploads ==
  {[content |-> c, filename |-> csvName, mimeType |-> csvMime, workbook |-> NoWorkbook] :
      c \in Contents}

InitAgain ==
  /\ upload \in CsvUploads
  /\ parsed = <<>>
  /\ memory = <<>> /\ files = <<>> /\ routeMap = <<>> /\ pending = {}
  /\ request = <<>> /\ response = <<>> /\ processed = {} /\ lastSet = <<>>
  /\ table = <<>>

\* analyzeComplexStructure and the cleaning of processCSVFile, applied to
\* the headers and rows that processFile returned
ExtractAgain ==
  /\ parsed # <<>>
  /\ table = <<>>
  /\ table' = << parsedData(analyzeComplexStructure(<<parsed[1].headers>> \o parsed[1].rows),
                            <<>>) >>
  /\ UNCHANGED <<upload, parsed, memory, files, routeMap, pending, request, response,
                 processed, lastSet>>

NextAgain == RunProcessFile \/ ExtractAgain

SpecAgain == InitAgain /\ [][NextAgain]_vars

(***************************************************************************)
(* Claims on the second extraction (SpecAgain)                             *)
(***************************************************************************)
\* C14 (as claimed): when the extraction selected a header row H, with data
\* rows R, and H scores at least 3 under the keyword rule, the extraction
\* of the table H, R selects row 0 as the header row: the same headers, and
\* data that starts at row 1, however many rows and columns there are.
C14_HeaderRowIsSelectedAgain ==
  (table # <<>>
     /\ parsed[1].metadata.fileType \in {"simple_table", "expense_report"}
     /\ headerScore(parsed[1].headers) >= 3) =>
    /\ table[1].headers = parsed[1].headers
    /\ table[1].metadata.dataStartRow = 1

(***************************************************************************)
(* Specification of the cleaning of one raw row of currency cells: a first *)
(* cell that is a category (Rent), a name that the budget extractor skips  *)
(* (Totais) or blank, and up to MaxMoneyCells currency cells.  The budget  *)
(* extractor takes the rows of a category with two cells or more, the      *)
(* generic cell cleaner takes the others.                                  *)
(***************************************************************************)
MaxMoneyCells == 2

MoneyCellPool ==
  { <<"R", "$", " ", "1", ".", "2", "3", "4", ",", "5", "6">>,
    <<"R", "$", " ", "1", "0">>,
    <<"R", "$", " ", "5", ",", "5", "0">>,
    <<"R", "$", "2", ".", "0", "0", "0", ",", "5">>,
    <<"R", "$", " ", "7", ".", "5">> }

FirstCells == { <<"R", "e", "n", "t">>, <<"T", "o", "t", "a", "i", "s">>, <<>> }

InitCurrency ==
  /\ \E first \in FirstCells :
       \E cells \in SeqsUpTo(MoneyCellPool, MaxMoneyCells) \ {<<>>} :
          table = <<first>> \o cells
  /\ response = <<>>
  /\ memory = <<>> /\ files = <<>> /\ routeMap = <<>> /\ request = <<>>
  /\ processed = {} /\ pending = {} /\ lastSet = <<>>
  /\ upload = <<>> /\ parsed = <<>>

\* cleanDataRows applied to the row, for as many columns as the row has
CleanRow ==
  /\ response = <<>>
  /\ response' = << cleanDataRows(<<table>>, Len(table)) >>
  /\ UNCHANGED <<table, memory, files, routeMap, request, processed, pending, lastSet,
                 upload, parsed>>

NextCurrency == CleanRow

SpecCurrency == InitCurrency /\ [][NextCurrency]_vars

(***************************************************************************)
(* Claims on the cleaning of currency cells (SpecCurrency)                 *)
(***************************************************************************)
\* the text of a currency cell after R$ and the white space that follows
amountText(cell) == SubSeq(cell, SkipSpaces(cell, 3), Len(cell))

\* the index of the decimal comma of the text, 0 when it has none or several
commaOf(t) ==
  IF Cardinality({i \in 1..Len(t) : t[i] = ","}) = 1
  THEN CHOOSE i \in 1..Len(t) : t[i] = ","
  ELSE 0

\* R$, an amount whose whole part is groups of three digits parted by '.',
\* and a decimal comma followed by digits
isThousandsAmount(cell) ==
  /\ Len(cell) >= 3 /\ cell[1] = "R" /\ cell[2] = "$"
  /\ LET grouped(t, c) ==
           /\ c > 2 /\ c < Len(t)
           /\ \A i \in (c + 1)..Len(t) : IsDigit(t[i])
           /\ \E i \in 1..(c - 1) : t[i] = "."
           /\ \A i \in 1..(c - 1) : IF (c - i) % 4 = 0 THEN t[i] = "." ELSE IsDigit(t[i])
     IN  grouped(amountText(cell), commaOf(amountText(cell)))

\* the amount that such a cell states: the digits of the whole part, and
\* the digits after the comma as its decimals
amountOf(cell) ==
  LET amount(t, c) ==
        parseFloat(replaceAll(SubSeq(t, 1, c - 1), {"."}, <<>>)
                   \o <<".">> \o SubSeq(t, c + 1, Len(t)))
  IN  amount(amountText(cell), commaOf(amountText(cell)))

\* C15 (as claimed): a currency cell written as R$ and an amount with '.'
\* between the thousands and a decimal comma, such as R$ 1.234,56, is
\* cleaned to a string without the currency symbol that parses to the same
\* amount, 1234.56, by the generic cell cleaner and by the budget-row
\* extractor.
C15_CurrencyKeepsItsAmount ==
  response # <<>> =>
    \A j \in 2..Len(table) :
       isThousandsAmount(table[j]) =>
         /\ Len(response[1]) = 1
         /\ "R" \notin Range(response[1][1][j])
         /\ "$" \notin Range(response[1][1][j])
         /\ parseFloat(response[1][1][j]) = amountOf(table[j])

(***************************************************************************)
(* Further claims on the pipeline (SpecProc)                               *)
(***************************************************************************)
\* the 0-based indices of the raw rows that the analysis took for header
\* rows: the row that findDataTable selected, the rows at which
\* extractBudgetSection entered a section, none for a complex structure
detectedHeaderRows(rows, fileType) ==
  IF fileType \in {"simple_table", "expense_report"}
  THEN {findDataTable(rows)[1].headerRow}
  ELSE IF fileType = "budget_layout"
  THEN {i - 1 : i \in {k \in 1..Len(rows) :
                         LET entered(rowText) ==
                               /\ includes(rowText, kwDespesas) \/ includes(rowText, kwRenda)
                               /\ includes(rowText, kwPlanejado) \/ includes(rowText, kwReal)
                         IN  entered(toLowerCase(joinCells(rows[k])))}}
  ELSE {}

\* the rows that one raw row can become in ParsedData.rows of n columns
rowsFrom(row, n) ==
  LET cleaned(taken) == {cleanDataRow(taken[k], n) : k \in 1..Len(taken)}
  IN  cleaned(<<row, trimRow(row)>> \o extractBudgetRow(row) \o extractMeaningfulData(row))

\* C16 (as claimed): for every input and every classification, the reported
\* dataStartRow is greater than the index of the raw row that was detected
\* as the header row, and every returned row comes from a raw row at an
\* index that is at least dataStartRow.
C16_DataStartsPastHeaderRow ==
  parsed # <<>> =>
    LET past(rows, start, headers) ==
          /\ \A h \in detectedHeaderRows(rows, parsed[1].metadata.fileType) : start > h
          /\ \A k \in 1..Len(parsed[1].rows) :
                \E i \in (start + 1)..Len(rows) :
                   <<parsed[1].rows[k]>> \in rowsFrom(rows[i], Len(headers))
    IN  past(rawRowsOf(upload), parsed[1].metadata.dataStartRow, parsed[1].headers)

\* the score of a candidate header row as the rule states it: 2 for a cell
\* that holds a domain keyword, and 1 for a cell that is not empty, not
\* numeric and shorter than 30 characters
statedScore(row) ==
  LET points(cell) ==
        (IF includesAny(toLowerCase(cell), headerKeywords) THEN 2 ELSE 0)
        + (IF cell # <<>> /\ Len(cell) < 30 /\ ~isNumericValue(cell) THEN 1 ELSE 0)
  IN  SumSeq([j \in 1..Len(row) |-> points(trim(row[j]))])

\* the row of 0-based index i qualifies under the rule: its score is 3 or
\* more and one of the next 3 rows holds a numeric or monetary cell
qualifies(rows, i) ==
  /\ statedScore(rows[i + 1]) >= 3
  /\ \E r \in (i + 2)..Min(i + 4, Len(rows)) :
        \E j \in 1..Len(rows[r]) : isNumericValue(rows[r][j]) \/ isMonetaryValue(rows[r][j])

\* C17 (as claimed): findDataTable selects the row of lowest index among
\* the first 25 that qualifies, a row qualifying if and only if its score
\* is 3 or more and one of the next 3 rows holds a numeric or monetary
\* cell; the headers are the trimmed cells of that row, empty ones renamed
\* Column_N, cut after the last non-empty column, and data starts at the
\* row after it.
C17_FirstQualifyingRowIsHeader ==
  (parsed # <<>> /\ parsed[1].metadata.fileType # "budget_layout") =>
    LET selected(rows, candidates) ==
          IF candidates = {}
          THEN parsed[1].metadata.fileType = "complex_structure"
          ELSE LET first == CHOOSE i \in candidates : \A h \in candidates : i <= h
               IN  /\ parsed[1].metadata.fileType \in {"simple_table", "expense_report"}
                   /\ parsed[1].metadata.dataStartRow = first + 1
                   /\ parsed[1].headers =
                        SubSeq(cleanHeaders(rows[first + 1]), 1,
                               findLastNonEmptyColumn(rows[first + 1]) + 1)
        among(rows) ==
          selected(rows, {i \in 0..(Min(25, Len(rows)) - 1) : qualifies(rows, i)})
    IN  among(rawRowsOf(upload))

\* isBudgetHeaderRow: a cell holds the planned token and a cell holds the
\* actual token; cellsText are the cells in lower case, trimmed
isBudgetHeaderRow(cellsText) ==
  /\ \E j \in 1..Len(cellsText) : includes(cellsText[j], kwPlanejado)
  /\ \E j \in 1..Len(cellsText) : includes(cellsText[j], kwReal)

\* hasBudgetDataFollowing: one of the 10 rows from the 0-based index
\* startRow on has 3 cells or more, a first cell that is not empty and a
\* monetary cell after it
hasBudgetDataFollowing(rows, startRow) ==
  \E r \in (startRow + 1)..Min(startRow + 10, Len(rows)) :
     /\ Len(rows[r]) >= 3
     /\ trim(rows[r][1]) # <<>>
     /\ \E j \in 2..Len(rows[r]) : isMonetaryValue(rows[r][j])

\* C18 (as claimed): a table is classified budget_layout only if some row
\* holds both a planned token (planejado) and an actual token (real) and,
\* within the 10 rows after it, some row has a non-empty first cell and a
\* monetary cell; a table without such a row is never budget_layout.
C18_BudgetLayoutNeedsBudgetRows ==
  (parsed # <<>> /\ parsed[1].metadata.fileType = "budget_layout") =>
    LET layout(rows) ==
          \E i \in 1..Len(rows) :
             /\ isBudgetHeaderRow([j \in 1..Len(rows[i]) |-> trim(toLowerCase(rows[i][j]))])
             /\ hasBudgetDataFollowing(rows, i)
    IN  layout(rawRowsOf(upload))

\* C19 (as claimed): the classification takes the first match of the listed
\* priority, data-table detection coming before expense-report detection:
\* a table in which no budget layout is detected and in which data-table
\* detection finds a header row is classified simple_table.
C19_DataTableBeforeExpenseReport ==
  (parsed # <<>>
     /\ parsed[1].metadata.fileType # "budget_layout"
     /\ findDataTable(rawRowsOf(upload)) # <<>>) =>
    parsed[1].metadata.fileType = "simple_table"

\* detectHeaders, third strategy: at least 2 non-empty cells, one of which
\* is not a number once R, $, white space, comma, point and minus are
\* removed
looksLikeHeaders(row) ==
  LET nonEmpty(cell) == trim(cell) # <<>>
      text(cell) ==
        nonEmpty(cell)
        /\ NumberIsNaN(replaceAll(cell, {"R", "$", ",", ".", "-"} \cup WhiteSpace, <<>>))
  IN  /\ Cardinality({j \in 1..Len(row) : nonEmpty(row[j])}) >= 2
      /\ \E j \in 1..Len(row) : text(row[j])

\* the 0-based indices, among the first 15 rows, of the rows that could be
\* headers
genericHeaderRows(rows) ==
  {i \in 0..(Min(15, Len(rows)) - 1) : looksLikeHeaders(rows[i + 1])}

\* C20 (as claimed): when neither budget, expense-report nor data-table
\* detection matches and some row among the first 15 has at least 2
\* non-empty cells, one of them non-numeric, the first such row gives the
\* headers and data starts at the following row; when the table has rows
\* but no such row, data starts at row 1.
C20_GenericHeaderFallback ==
  (parsed # <<>>
     /\ parsed[1].metadata.fileType = "complex_structure"
     /\ rawRowsOf(upload) # <<>>) =>
    LET fallback(rows, found, p) ==
          IF found # {}
          THEN LET i == CHOOSE h \in found : \A g \in found : h <= g
               IN  /\ p.metadata.dataStartRow = i + 1
                   /\ Len(p.headers) <= Len(rows[i + 1])
                   /\ \A j \in 1..Len(p.headers) :
                         trim(rows[i + 1][j]) # <<>> => p.headers[j] = trim(rows[i + 1][j])
          ELSE p.metadata.dataStartRow = 1
    IN  fallback(rawRowsOf(upload), genericHeaderRows(rawRowsOf(upload)), parsed[1])

(***************************************************************************)
(* Specification of the budget extraction: processFile runs on a CSV       *)
(* upload of up to MaxBudgetLines lines of a budget sheet, with the two    *)
(* section header rows, rows of amounts, a totals row and a row of notes.  *)
(***************************************************************************)
MaxBudgetLines == 4

BudgetLinePool ==
  { <<"D", "e", "s", "p", "e", "s", "a", "s", ",", "P", "l", "a", "n", "e", "j", "a", "d", "o", ",", "R", "e", "a", "l">>,
    <<"F", "o", "o", "d", ",", "R", "$", " ", "1", "0", ",", "R", "$", " ", "2", "0">>,
    <<"R", "e", "n", "d", "a", ",", "P", "l", "a", "n", "e", "j", "a", "d", "o", ",", "R", "e", "a", "l">>,
    <<"S", "a", "l", ",", "R", "$", " ", "5", ",", "R", "$", " ", "6">>,
    <<"T", "o", "t", "a", "i", "s", ",", "R", "$", " ", "3", "0", ",", "R", "$", " ", "4", "0">>,
    <<"N", "o", "t", "a", "s", ",", "a", ",", "b">> }

BudgetUploads ==
  {[content |-> joinLines(ls), filename |-> csvName, mimeType |-> csvMime,
    workbook |-> NoWorkbook] : ls \in SeqsUpTo(BudgetLinePool, MaxBudgetLines)}

InitBudget ==
  /\ upload \in BudgetUploads
  /\ parsed = <<>>
  /\ memory = <<>> /\ files = <<>> /\ routeMap = <<>> /\ pending = {}
  /\ request = <<>> /\ response = <<>> /\ processed = {} /\ lastSet = <<>>
  /\ table = <<>>

NextBudget == RunProcessFile

SpecBudget == InitBudget /\ [][NextBudget]_vars

(***************************************************************************)
(* Claims on the budget extraction (SpecBudget)                            *)
(***************************************************************************)
\* the 1-based indices of the raw rows that belong to the section of a
\* keyword as the rule states it: the rows after the first row containing
\* the keyword, up to and including the first row that contains the totals
\* keyword or that is not a row of amounts
statedSectionRows(rows, sectionType) ==
  LET text(i) == toLowerCase(joinCells(rows[i]))
      heads == {i \in 1..Len(rows) : includes(text(i), sectionType)}
      span(start) ==
        LET stops == {i \in (start + 1)..Len(rows) :
                         includes(text(i), kwTotais) \/ extractBudgetRow(rows[i]) = <<>>}
        IN  {i \in (start + 1)..Len(rows) : \A s \in stops : i <= s}
  IN  IF heads = {} THEN {}
      ELSE span(CHOOSE h \in heads : \A g \in heads : h <= g)

\* the keyword of a section of the budget layout
sectionKeyword(name) == IF name = <<"Despesas">> THEN kwDespesas ELSE kwRenda

\* C21 (as claimed): a budget section holds rows of the raw rows between
\* the first row containing its keyword and the first following row that
\* contains the totals keyword or is not a row of amounts, so that rows
\* after the header of the other section are not in it, and the combined
\* table has no more rows than the raw table has rows of amounts.
C21_SectionStopsAtNextSection ==
  (parsed # <<>> /\ parsed[1].metadata.fileType = "budget_layout") =>
    LET rows == rawRowsOf(upload)
        sections == parsed[1].metadata.extractedSections
    IN  /\ \A k \in 1..Len(sections) :
              \A r \in 1..Len(sections[k].rows) :
                 \E i \in statedSectionRows(rows, sectionKeyword(sections[k].name)) :
                    extractBudgetRow(rows[i]) = <<sections[k].rows[r]>>
        /\ Len(parsed[1].rows)
             <= Cardinality({i \in 1..Len(rows) : extractBudgetRow(rows[i]) # <<>>})

(***************************************************************************)
(* Specification of detectColumnType on columns that mix currency amounts  *)
(* with other values, of up to MaxShareValues values.                      *)
(***************************************************************************)
MaxShareValues == 5

ShareValuePool ==
  { <<"R", "$", " ", "5">>, <<"R", "$", " ", "1", ".", "2", "3", "4", ",", "5", "6">>, <<"a">>, <<" ">> }

InitShare ==
  /\ \E values \in SeqsUpTo(ShareValuePool, MaxShareValues) :
       \E engineDates \in SUBSET {v \in Range(values) : hasDigit(v) /\ ~isDateString(v)} :
          table = [values |-> values, engineDates |-> engineDates]
  /\ response = <<>>
  /\ memory = <<>> /\ files = <<>> /\ routeMap = <<>> /\ request = <<>>
  /\ processed = {} /\ pending = {} /\ lastSet = <<>>
  /\ upload = <<>> /\ parsed = <<>>

NextShare == DetectColumnTypes

SpecShare == InitShare /\ [][NextShare]_vars

(***************************************************************************)
(* Claims on the share of currency amounts (SpecShare)                     *)
(***************************************************************************)
\* the positions of the column that hold a non-blank value
filledAt(values) == {j \in 1..Len(values) : trim(values[j]) # <<>>}

\* the positions of the column that hold a currency amount
currencyAt(values) == {j \in filledAt(values) : currencyRegex(trim(values[j]))}

\* C22 (as claimed): detectColumnType of part_000 returns number for a
\* column whenever at least 80% of its non-blank values match the currency
\* pattern, 4 values of 5 included, whatever the other values are.
C22_EightyPercentCurrencyIsNumber ==
  response # <<>> =>
    LET share(all, money) ==
          (all > 0 /\ money * 10 >= all * 8) => response[1].advanced = "number"
    IN  share(Cardinality(filledAt(table.values)), Cardinality(currencyAt(table.values)))

(***************************************************************************)
(* Specification of parseCSVLine as a function of the line: every line of  *)
(* up to MaxLineLen characters among a letter, the comma, the double quote *)
(* and the space.                                                          *)
(***************************************************************************)
MaxLineLen == 6

LineChars == {"a", ",", "\"", " "}

InitCsv ==
  /\ table \in SeqsUpTo(LineChars, MaxLineLen)
  /\ response = <<>>
  /\ memory = <<>> /\ files = <<>> /\ routeMap = <<>> /\ request = <<>>
  /\ processed = {} /\ pending = {} /\ lastSet = <<>>
  /\ upload = <<>> /\ parsed = <<>>

\* processCSVFile parses one line of the content
ParseLine ==
  /\ response = <<>>
  /\ response' = <<parseCSVLine(table)>>
  /\ UNCHANGED <<table, memory, files, routeMap, request, processed, pending, lastSet,
                 upload, parsed>>

NextCsv == ParseLine

SpecCsv == InitCsv /\ [][NextCsv]_vars

(***************************************************************************)
(* Claims on parseCSVLine (SpecCsv)                                        *)
(***************************************************************************)
\* the number of double quotes of the line before position i
quotesBefore(line, i) == Cardinality({j \in 1..(i - 1) : line[j] = "\""})

\* position i is inside a quoted region: an odd number of quotes precede it
insideQuotes(line, i) == quotesBefore(line, i) % 2 = 1

\* the positions of the commas outside quoted regions, in order
outsideCommas(line) ==
  SelectSeq([i \in 1..Len(line) |-> i],
            LAMBDA i : line[i] = "," /\ ~insideQuotes(line, i))

\* the quote at position i is the second quote of a doubled quote inside a
\* quoted region: in its run of consecutive quotes, after the opening quote
\* if the run starts outside a region, it stands at an odd place
literalQuote(line, i) ==
  LET start == CHOOSE r \in 1..i :
                 /\ \A j \in r..i : line[j] = "\""
                 /\ (r = 1 \/ line[r - 1] # "\"")
      place == IF insideQuotes(line, start) THEN i - start ELSE i - start - 1
  IN  place >= 0 /\ place % 2 = 1

\* the characters of positions a..b that belong to the field
fieldOf(line, a, b) ==
  LET kept == SelectSeq([k \in 1..(b - a + 1) |-> a + k - 1],
                        LAMBDA i : line[i] # "\"" \/ literalQuote(line, i))
  IN  [k \in 1..Len(kept) |-> line[kept[k]]]

\* C23: parseCSVLine splits the line at the commas outside quoted regions
\* and nowhere else, so there are 1 + that many fields; a field holds the
\* characters between two such commas, commas inside a quoted region
\* included, a doubled quote inside a quoted region as one quote, without
\* the quotes that open and close the regions, and trimmed.
C23_SplitsOutsideQuotesOnly ==
  response # <<>> =>
    LET fields(line, cuts) ==
          /\ Len(response[1]) = 1 + Len(cuts)
          /\ \A k \in 1..(Len(cuts) + 1) :
                response[1][k] =
                  trim(fieldOf(line,
                               IF k = 1 THEN 1 ELSE cuts[k - 1] + 1,
                               IF k = Len(cuts) + 1 THEN Len(line) ELSE cuts[k] - 1))
    IN  fields(table, outsideCommas(table))

\* a line whose quoted regions are closed, with a comma outside them, a
\* comma inside one and a doubled quote inside one, has been parsed into
\* two fields
C23_Witness ==
  /\ response # <<>>
  /\ Len(response[1]) = 2
  /\ ~insideQuotes(table, Len(table) + 1)
  /\ \E i \in 1..Len(table) : table[i] = "," /\ insideQuotes(table, i)
  /\ \E i \in 1..Len(table) : table[i] = "\"" /\ literalQuote(table, i)
  /\ \E k \in 1..2 : \E j \in 1..Len(response[1][k]) : response[1][k][j] = "\""

(***************************************************************************)
(* Specification of DataAnalyzer.analyzeData on tables with empty cells:   *)
(* no, one or two string columns and up to MaxQualityRows rows, each cell  *)
(* empty or filled.                                                        *)
(***************************************************************************)
QualityColumnCounts == {0, 1, 2}

MaxQualityRows == 5

\* the table of the given cells, cells[c][i] being the cell of column c
\* in row i
QualityTable(cells, n) ==
  LET names == [c \in 1..Len(cells) |-> columnName("c", c)]
  IN  [columns |-> [c \in 1..Len(cells) |->
                      [name         |-> names[c],
                       type         |-> "string",
                       sampleValues |-> SubSeq(cells[c], 1, Min(5, n))]],
       rows    |-> [i \in 1..n |->
                      [name \in Range(names) |->
                         cells[CHOOSE c \in 1..Len(names) : names[c] = name][i]]]]

QualityTables ==
  UNION {{QualityTable(cells, n) :
            cells \in UNION {[1..k -> [1..n -> {<<>>, <<"v">>}]] : k \in QualityColumnCounts}} :
         n \in 0..MaxQualityRows}

InitQuality ==
  /\ table \in QualityTables
  /\ response = <<>>
  /\ memory = <<>> /\ files = <<>> /\ routeMap = <<>> /\ pending = {}
  /\ request = <<>> /\ processed = {} /\ lastSet = <<>>
  /\ upload = <<>> /\ parsed = <<>>

NextQuality == RunAnalyzeData

SpecQuality == InitQuality /\ [][NextQuality]_vars

(***************************************************************************)
(* Claims on the data quality (SpecQuality)                                *)
(***************************************************************************)
\* the cells of the table that are filled, as <<column, row>> positions
filledPositions(t) ==
  {p \in (1..Len(t.columns)) \X (1..Len(t.rows)) :
      t.rows[p[2]][t.columns[p[1]].name] # <<>>}

\* the columns of the table whose rate of empty cells exceeds 20%
sparseColumns(t) ==
  {c \in 1..Len(t.columns) :
      Cardinality({i \in 1..Len(t.rows) : t.rows[i][t.columns[c].name] = <<>>}) * 100
        > 20 * Len(t.rows)}

incompleteHint == <<"Dados incompletos">>
manyEmptyHint == <<"muitos valores vazios">>

\* C24: completeness is 100 * filledCells / (columns * rows), 0 without
\* rows; consistency is 100 * (columns - columns whose null rate exceeds
\* 20%) / columns, 100 without columns; both lie in 0..100; the hint of
\* incompleteness is given iff completeness < 70 and the hint of many empty
\* values iff consistency < 80.
C24_QualityScores ==
  response # <<>> =>
    LET scores(q, columns, rows, filledCells, sparse) ==
          /\ q.completeness = (IF columns * rows > 0
                               THEN Rat(100 * filledCells, columns * rows) ELSE Rat(0, 1))
          /\ q.consistency = (IF columns > 0
                              THEN Rat(100 * (columns - sparse), columns) ELSE Rat(100, 1))
          /\ ~RatLess(q.completeness, Rat(0, 1)) /\ ~RatLess(Rat(100, 1), q.completeness)
          /\ ~RatLess(q.consistency, Rat(0, 1)) /\ ~RatLess(Rat(100, 1), q.consistency)
          /\ incompleteHint \in Range(q.suggestions) <=> RatLess(q.completeness, Rat(70, 1))
          /\ manyEmptyHint \in Range(q.suggestions) <=> RatLess(q.consistency, Rat(80, 1))
    IN  scores(response[1].dataQuality, Len(table.columns), Len(table.rows),
               Cardinality(filledPositions(table)), Cardinality(sparseColumns(table)))

\* a table of 5 rows with a column of exactly one empty cell (20%) and a
\* column of more has been assessed: completeness under 70 and consistency
\* 50, with both hints
C24_Witness ==
  /\ response # <<>>
  /\ Len(table.rows) = 5
  /\ \E c \in 1..Len(response[1].columns) : response[1].columns[c].nullCount = 1
  /\ response[1].dataQuality.consistency = Rat(50, 1)
  /\ RatLess(response[1].dataQuality.completeness, Rat(70, 1))
  /\ incompleteHint \in Range(response[1].dataQuality.suggestions)
  /\ manyEmptyHint \in Range(response[1].dataQuality.suggestions)

(***************************************************************************)
(* Further claims on the series of getChartData (SpecSeries)               *)
(***************************************************************************)
\* the request falls to the default branch: a chart type that is not
\* recognized, or bar, line or scatter without a yColumn
isFallbackRequest(args) ==
  \/ args.chartType \notin {"pie", "bar", "line", "scatter"}
  \/ args.chartType \in {"bar", "line", "scatter"} /\ args.yColumn = <<>>

MaxCreates == 2

DashSuggestions ==
  << [type |-> "bar", xColumn |-> colNome, yColumn |-> <<colTotal>>, title |-> <<"bar">>],
     [type |-> "pie", xColumn |-> colNome, yColumn |-> <<>>, title |-> <<"pie">>] >>

DashConfigs ==
  { [chartType |-> "line", xColumn |-> colNome, yColumn |-> <<colTotal>>, title |-> <<"custom">>],
    [chartType |-> "bar", xColumn |-> colNome, yColumn |-> <<colTotal>>, title |-> <<"custom">>] }

\* lines 55-68: <<>> for null
currentConfig(state) ==
  IF state.customChartConfig # <<>> THEN state.customChartConfig
  ELSE IF state.selectedSuggestion # <<>>
  THEN << [chartType |-> state.selectedSuggestion[1].type,
           xColumn   |-> state.selectedSuggestion[1].xColumn,
           yColumn   |-> state.selectedSuggestion[1].yColumn,
           title     |-> state.selectedSuggestion[1].title] >>
  ELSE <<>>

\* the body of the get-chart-data request for a configuration
chartRequestBody(config) ==
  [chartType |-> config.chartType, xColumn |-> config.xColumn, yColumn |-> config.yColumn]

InitDash ==
  /\ table = [loading            |-> TRUE,
              error              |-> <<>>,
              selectedSuggestion |-> <<>>,
              customChartConfig  |-> <<>>,
              chartData          |-> <<>>,
              savedCharts        |-> <<>>,
              isCreatingChart    |-> FALSE]
  /\ pending = {}
  /\ processed = {}
  /\ memory = <<>> /\ files = <<>> /\ routeMap = <<>>
  /\ request = <<>> /\ response = <<>> /\ lastSet = <<>>
  /\ upload = <<>> /\ parsed = <<>>

\* fetchAnalysis, started by the effect of the mount, with the answer of
\* analyze-data: the suggestions, of which the first is selected, or a
\* failure
FetchAnalysis ==
  /\ table.loading
  /\ \E ok \in BOOLEAN, suggestedCharts \in {<<>>, DashSuggestions} :
        table' = [table EXCEPT
                    !.loading = FALSE,
                    !.error = IF ok THEN <<>> ELSE <<"Failed to fetch analysis">>,
                    !.selectedSuggestion =
                       IF ok /\ Len(suggestedCharts) > 0 THEN <<suggestedCharts[1]>> ELSE @]
  /\ UNCHANGED <<pending, processed>>
  /\ UNCHANGED <<memory, files, routeMap, request, response, lastSet, upload, parsed>>

handleSelectSuggestion(suggestion) ==
  /\ ~table.loading
  /\ table' = [table EXCEPT !.selectedSuggestion = <<suggestion>>,
                            !.customChartConfig = <<>>,
                            !.chartData = <<>>]
  /\ UNCHANGED <<pending, processed>>
  /\ UNCHANGED <<memory, files, routeMap, request, response, lastSet, upload, parsed>>

handleChartConfigChange(config) ==
  /\ ~table.loading
  /\ table' = [table EXCEPT !.customChartConfig = <<config>>, !.chartData = <<>>]
  /\ UNCHANGED <<pending, processed>>
  /\ UNCHANGED <<memory, files, routeMap, request, response, lastSet, upload, parsed>>

\* handleCreateChart up to its await: the request is sent for the current
\* configuration, which the closure keeps
handleCreateChart ==
  /\ ~table.loading
  /\ Cardinality(processed) < MaxCreates
  /\ currentConfig(table) # <<>>
  /\ table' = [table EXCEPT !.isCreatingChart = TRUE, !.error = <<>>]
  /\ pending' = pending \cup {[call |-> Cardinality(processed) + 1,
                               config |-> currentConfig(table)[1]]}
  /\ processed' = processed \cup {Cardinality(processed) + 1}
  /\ UNCHANGED <<memory, files, routeMap, request, response, lastSet, upload, parsed>>

\* handleCreateChart after its await: the answer of one request arrives,
\* ok or not
CreateChartAnswered ==
  \E sent \in pending, ok \in BOOLEAN :
    /\ pending' = pending \ {sent}
    /\ table' =
         IF ok
         THEN [table EXCEPT
                 !.chartData = <<chartRequestBody(sent.config)>>,
                 !.savedCharts = Append(@, [title   |-> sent.config.title,
                                            type    |-> sent.config.chartType,
                                            xColumn |-> sent.config.xColumn,
                                            yColumn |-> sent.config.yColumn,
                                            data    |-> chartRequestBody(sent.config)]),
                 !.isCreatingChart = FALSE]
         ELSE [table EXCEPT !.error = <<"Failed to create chart">>,
                            !.isCreatingChart = FALSE]
    /\ UNCHANGED processed
    /\ UNCHANGED <<memory, files, routeMap, request, response, lastSet, upload, parsed>>

NextDash ==
  \/ FetchAnalysis
  \/ \E k \in 1..Len(DashSuggestions) : handleSelectSuggestion(DashSuggestions[k])
  \/ \E config \in DashConfigs : handleChartConfigChange(config)
  \/ handleCreateChart
  \/ CreateChartAnswered

SpecDash == InitDash /\ [][NextDash]_vars

(***************************************************************************)
(* Claims on the dashboard (SpecDash)                                      *)
(***************************************************************************)
\* C26 (as claimed): whenever chartData is not null, it is the answer to a
\* get-chart-data request for the current configuration.
C26_ChartDataIsOfCurrentConfig ==
  table.chartData # <<>> =>
    /\ currentConfig(table) # <<>>
    /\ table.chartData[1] = chartRequestBody(currentConfig(table)[1])

(***************************************************************************)
(* The upload widget (FileUpload of src/components/file-upload.tsx).  The  *)
(* list uploadFiles is kept in `table`, the calls of onDrop that are still *)
(* running in `pending`, each with the ids it has yet to process (the      *)
(* first being the file in process) and what it awaits, the number of ids  *)
(* handed out in `request`, and the fileIds that onUploadComplete was      *)
(* called with in `processed`.  What runs between two awaits is one step.  *)
(***************************************************************************)
MaxUploads == 3

\* the largest number of files dropped at once
MaxDrop == 2

InitUpload ==
  /\ table = <<>>
  /\ pending = {}
  /\ request = 0
  /\ processed = {}
  /\ memory = <<>> /\ files = <<>> /\ routeMap = <<>>
  /\ response = <<>> /\ lastSet = <<>>
  /\ upload = <<>> /\ parsed = <<>>

\* prev.map((f) => (f.id === fileId ? { ...f, ...fields } : f))
setFile(uploadFiles, fileId, status, progress, error) ==
  [k \in 1..Len(uploadFiles) |->
     IF uploadFiles[k].id = fileId
     THEN [id       |-> fileId,
           status   |-> status,
           progress |-> IF progress = <<>> THEN uploadFiles[k].progress ELSE progress[1],
           error    |-> IF error = <<>> THEN uploadFiles[k].error ELSE error]
     ELSE uploadFiles[k]]

\* processFile up to its first await, for the first id of the call if any
startProcessFile(uploadFiles, ids) ==
  IF ids = <<>> THEN uploadFiles ELSE setFile(uploadFiles, ids[1], "processing", <<50>>, <<>>)

\* the calls of onDrop after one of them went on to ids
callsAfter(call, ids, awaits) ==
  (pending \ {call}) \cup (IF ids = <<>> THEN {} ELSE {[ids |-> ids, awaits |-> awaits]})

\* onDrop: the files are added as uploading, and processFile starts on the
\* first one
onDrop ==
  \E n \in 1..MaxDrop :
    /\ request + n <= MaxUploads
    /\ LET ids == [k \in 1..n |-> request + k]
           newFiles == [k \in 1..n |->
                          [id |-> ids[k], status |-> "uploading", progress |-> 0, error |-> <<>>]]
       IN  /\ table' = startProcessFile(table \o newFiles, ids)
           /\ pending' = pending \cup {[ids |-> ids, awaits |-> "text"]}
    /\ request' = request + n
    /\ UNCHANGED processed
    /\ UNCHANGED <<memory, files, routeMap, response, lastSet, upload, parsed>>

\* file.text() settles: the request is sent, or the catch marks the file
\* and the loop of onDrop goes on to the next file
TextRead ==
  \E call \in pending, ok \in BOOLEAN :
    /\ call.awaits = "text"
    /\ IF ok
       THEN /\ pending' = callsAfter(call, call.ids, "fetch")
            /\ table' = table
       ELSE /\ pending' = callsAfter(call, Tail(call.ids), "text")
            /\ table' = startProcessFile(
                          setFile(table, call.ids[1], "error", <<>>, <<"e">>), Tail(call.ids))
    /\ UNCHANGED <<request, processed>>
    /\ UNCHANGED <<memory, files, routeMap, response, lastSet, upload, parsed>>

\* the answer of process-file arrives: ok, and the file is completed and
\* onUploadComplete called, or not, and the catch marks the file; the loop
\* of onDrop goes on to the next file
FetchAnswered ==
  \E call \in pending, ok \in BOOLEAN :
    /\ call.awaits = "fetch"
    /\ pending' = callsAfter(call, Tail(call.ids), "text")
    /\ IF ok
       THEN /\ table' = startProcessFile(
                          setFile(table, call.ids[1], "completed", <<100>>, <<>>), Tail(call.ids))
            /\ processed' = processed \cup {call.ids[1]}
       ELSE /\ table' = startProcessFile(
                          setFile(table, call.ids[1], "error", <<>>, <<"e">>), Tail(call.ids))
            /\ processed' = processed
    /\ UNCHANGED request
    /\ UNCHANGED <<memory, files, routeMap, response, lastSet, upload, parsed>>

\* removeFile: the button of a listed file
removeFile ==
  \E k \in 1..Len(table) :
    /\ table' = SelectSeq(table, LAMBDA f : f.id # table[k].id)
    /\ UNCHANGED <<pending, request, processed>>
    /\ UNCHANGED <<memory, files, routeMap, response, lastSet, upload, parsed>>

NextUpload == onDrop \/ TextRead \/ FetchAnswered \/ removeFile

SpecUpload == InitUpload /\ [][NextUpload]_vars

(***************************************************************************)
(* Claims on the upload widget (SpecUpload)                                *)
(***************************************************************************)
\* the file of the id in the list, the list holding it
fileOf(uploadFiles, id) ==
  uploadFiles[CHOOSE k \in 1..Len(uploadFiles) : uploadFiles[k].id = id]

listedIds(uploadFiles) == {uploadFiles[k].id : k \in 1..Len(uploadFiles)}

\* the moves of a status that the order uploading, processing, completed
\* or error allows, staying included
statusMoves ==
  { <<"uploading", "uploading">>, <<"uploading", "processing">>,
    <<"processing", "processing">>, <<"processing", "completed">>,
    <<"processing", "error">>, <<"completed", "completed">>, <<"error", "error">> }

\* the step gives a file the status completed
completedNow(id) ==
  /\ id \in listedIds(table')
  /\ fileOf(table', id).status = "completed"
  /\ id \in listedIds(table) => fileOf(table, id).status # "completed"

\* C27 (as claimed): the status of a file only moves uploading, processing,
\* then completed or error, the last two being final; its progress never
\* decreases and is 100 exactly when the status is completed; and
\* onUploadComplete is called with a fileId exactly when that file reaches
\* completed.
C27_StatusOrderAndCallback ==
  [][ /\ \A id \in listedIds(table) \cap listedIds(table') :
            /\ <<fileOf(table, id).status, fileOf(table', id).status>> \in statusMoves
            /\ fileOf(table, id).progress <= fileOf(table', id).progress
      /\ \A id \in listedIds(table') :
            fileOf(table', id).progress = 100 <=> fileOf(table', id).status = "completed"
      /\ \A id \in 1..MaxUploads :
            (id \in processed' /\ id \notin processed) <=> completedNow(id)
    ]_vars

(***************************************************************************)
(* Specification of the charts that the dashboard creates from the         *)
(* suggestions: a CSV text of the header Dia,Total,Qtd,Nome and up to      *)
(* MaxEngineRows lines is stored by POST of process-file/route.ts; the     *)
(* suggestions are the ones of DataAnalyzer.analyzeData for the stored     *)
(* columns and rows, and handleCreateChart sends the type, the xColumn and *)
(* the yColumn of the selected one to get-chart-data.                      *)
(***************************************************************************)
MaxEngineRows == 3

EngineLinePool ==
  { <<"2", "0", "2", "4", "-", "0", "1", "-", "0", "1", ",", "1", "0", ",", "1", ",", "N">>,
    <<"2", "0", "2", "4", "-", "0", "1", "-", "0", "2", ",", "2", "0", ",", "2", ",", "N">>,
    <<"2", "0", "2", "4", "-", "0", "1", "-", "0", "1", ",", "5", ",", "3", ",", "M">> }

headerDiaTotalQtdNome == <<"D", "i", "a", ",", "T", "o", "t", "a", "l", ",", "Q", "t", "d", ",", "N", "o", "m", "e">>

EngineContents ==
  {joinLines(<<headerDiaTotalQtdNome>> \o ls) :
     ls \in SeqsUpTo(EngineLinePool, MaxEngineRows) \ {<<>>}}

\* the suggestions of the analysis of a stored file (analyze-data lines
\* 35-39 and DataAnalyzer.analyzeData)
suggestedChartsOf(fileData) ==
  analyzeData([c \in 1..Len(fileData.columns) |->
                 [name         |-> fileData.columns[c].column_name,
                  type         |-> fileData.columns[c].column_type,
                  sampleValues |-> fileData.columns[c].sample_values]],
              dataRowsOf(fileData)).suggestedCharts

\* the body that handleCreateChart sends for a suggestion
suggestedRequest(fileId, suggestion) ==
  [fileId            |-> fileId,
   chartType         |-> suggestion.type,
   xColumn           |-> suggestion.xColumn,
   yColumn           |-> IF suggestion.yColumn = <<>> THEN <<>> ELSE suggestion.yColumn[1],
   aggregateFunction |-> <<>>]

InitEngine ==
  /\ \E content \in EngineContents :
        routeMap = [f \in FileIds |-> simplePost(RequestBody(f, content)).stored]
  /\ memory = NoEntries
  /\ files = NoFiles
  /\ request = [kind |-> "start", fileId |-> NoFileId, args |-> <<>>]
  /\ response = [status |-> 0]
  /\ processed = {}
  /\ pending = {} /\ lastSet = <<>> /\ table = <<>>
  /\ upload = <<>> /\ parsed = <<>>

\* a suggestion of the file is selected and its chart is created
CreateSuggestedChart ==
  \E f \in FileIds :
    /\ routeMap[f] # <<>>
    /\ \E k \in 1..Len(suggestedChartsOf(routeMap[f][1])) :
          GetChartData(suggestedRequest(f, suggestedChartsOf(routeMap[f][1])[k]))

NextEngine == CreateSuggestedChart

SpecEngine == InitEngine /\ [][NextEngine]_vars

(***************************************************************************)
(* Claims on the charts of the suggestions (SpecEngine)                    *)
(***************************************************************************)
\* C28 (as claimed): for a suggestion with a yColumn (bar, line, scatter,
\* area), the points that getChartData returns are computed from the
\* yColumn cells of the rows: each point carries the yColumn, its value
\* being the total of the yColumn cells of some rows of the table.
C28_SuggestedChartUsesYColumn ==
  (request.kind = "get-chart-data" /\ request.args.yColumn # <<>>
     /\ request.args.chartType \in {"bar", "line", "scatter", "area"}) =>
    LET fromY(rows, y) ==
          /\ response.status = 200
          /\ Len(response.data) > 0
          /\ \A k \in 1..Len(response.data) :
                /\ y \in DOMAIN response.data[k]
                /\ \E group \in SUBSET (1..Len(rows)) :
                      group # {} /\ response.data[k][y] = totalOver(rows, group, y)
    IN  fromY(dataRowsOf(routeMap[request.fileId][1]), request.args.yColumn)

(***************************************************************************)
(* Claims on the quality report of the extracted table (SpecProc)          *)
(***************************************************************************)
\* C29 (as claimed): the dataCompleteness that analyzeDataQuality computes
\* for the headers and the cleaned rows that processFile returned lies
\* between 0 and 100.
C29_CompletenessWithinHundred ==
  parsed # <<>> =>
    LET within(q) == ~RatLess(q, Rat(0, 1)) /\ ~RatLess(Rat(100, 1), q)
    IN  within(analyzeDataQuality(parsed[1].headers, parsed[1].rows).dataCompleteness)

(***************************************************************************)
(* Claims on what FileStorage reports of itself (SpecStore)                *)
(***************************************************************************)
\* the file ids for which fileStorage.get returns an entry
idsWithEntry == {f \in FileIds : FileStorageGet(memory, files, f).data # <<>>}

\* C30 (as claimed): whatever sets, gets, failed writes and restarts came
\* before, fileStorage.has(fileId) is true exactly when fileStorage.get(fileId)
\* returns an entry, and keys() and size() enumerate exactly the file ids
\* for which get returns an entry.
C30_HasIffGet ==
  /\ \A f \in FileIds : FileStorageHas(memory, files, f) <=> f \in idsWithEntry
  /\ FileStorageKeys(memory, files) = idsWithEntry
  /\ FileStorageSize(memory, files) = Cardinality(idsWithEntry)

====
